---- MODULE Spec2Model ----
(***************************************************************************)
(* Model of sheet-monitor (src/monitor.js): the run lock, the stage /      *)
(* notify / commit protocol of main, and the header and row differs.       *)
(*                                                                         *)
(* Strings are sequences of one-character strings, so that trimming,       *)
(* concatenation and file-name sanitising are computed, not assumed.       *)
(***************************************************************************)
EXTENDS Integers, Sequences, FiniteSets, TLC

(* ------------------------------------------------------------------ *)
(* Strings                                                             *)
(* ------------------------------------------------------------------ *)

\* the value of a missing property (no string equals it)
Undef == <<"undefined">>

EmptyStr == << >>

\* the characters String.prototype.trim removes (the model uses the space)
IsWhitespace(c) == c = " "

RECURSIVE TrimStart(_)
TrimStart(s) ==
  IF s = << >> THEN << >>
  ELSE IF IsWhitespace(Head(s)) THEN TrimStart(Tail(s)) ELSE s

RECURSIVE TrimEnd(_)
TrimEnd(s) ==
  IF s = << >> THEN << >>
  ELSE IF IsWhitespace(s[Len(s)]) THEN TrimEnd(SubSeq(s, 1, Len(s) - 1)) ELSE s

Trim(s) == TrimEnd(TrimStart(s))

\* String.prototype.toLowerCase on the letters the model uses
LowerChar(c) ==
  CASE c = "I" -> "i"
    [] c = "D" -> "d"
    [] c = "N" -> "n"
    [] c = "A" -> "a"
    [] c = "B" -> "b"
    [] OTHER -> c

ToLowerCase(s) == [i \in 1..Len(s) |-> LowerChar(s[i])]

StartsWith(s, prefix) ==
  /\ Len(s) >= Len(prefix)
  /\ SubSeq(s, 1, Len(prefix)) = prefix

Digit(n) == CASE n = 0 -> "0" [] n = 1 -> "1" [] n = 2 -> "2" [] n = 3 -> "3"
              [] n = 4 -> "4" [] n = 5 -> "5" [] n = 6 -> "6" [] n = 7 -> "7"
              [] n = 8 -> "8" [] n = 9 -> "9"

\* decimal rendering of a non-negative number inside a template literal
RECURSIVE NumStr(_)
NumStr(n) == IF n < 10 THEN <<Digit(n)>> ELSE NumStr(n \div 10) \o <<Digit(n % 10)>>

\* Array.prototype.join
RECURSIVE Join(_, _)
Join(strs, sep) ==
  IF strs = << >> THEN << >>
  ELSE IF Len(strs) = 1 THEN strs[1]
  ELSE strs[1] \o sep \o Join(Tail(strs), sep)

Range(seq) == {seq[i] : i \in 1..Len(seq)}

\* collation order of the characters the model uses (localeCompare)
Collation == <<" ", "_", "|", "#", ":", "0", "1", "2", "3", "a", "A", "b", "B",
               "d", "D", "i", "I", "n", "N">>

CharRank(c) ==
  IF c \in Range(Collation)
  THEN CHOOSE i \in 1..Len(Collation) : Collation[i] = c
  ELSE 0

RECURSIVE LocaleLess(_, _)
LocaleLess(a, b) ==
  IF b = << >> THEN FALSE
  ELSE IF a = << >> THEN TRUE
  ELSE IF CharRank(Head(a)) # CharRank(Head(b))
       THEN CharRank(Head(a)) < CharRank(Head(b))
  ELSE LocaleLess(Tail(a), Tail(b))

(* ------------------------------------------------------------------ *)
(* JavaScript objects with string keys: a sequence of <<key, value>>   *)
(* pairs with distinct keys, in insertion order                        *)
(* ------------------------------------------------------------------ *)

ObjectKeys(obj) == [i \in 1..Len(obj) |-> obj[i][1]]

ObjectValues(obj) == [i \in 1..Len(obj) |-> obj[i][2]]

HasKey(obj, k) == \E i \in 1..Len(obj) : obj[i][1] = k

ObjGet(obj, k) ==
  IF HasKey(obj, k)
  THEN obj[CHOOSE i \in 1..Len(obj) : obj[i][1] = k][2]
  ELSE Undef

ObjSet(obj, k, v) ==
  IF HasKey(obj, k)
  THEN [i \in 1..Len(obj) |-> IF obj[i][1] = k THEN <<k, v>> ELSE obj[i]]
  ELSE Append(obj, <<k, v>>)

\* JSON.stringify of a string of the model's alphabet (nothing to escape)
JsonString(s) == <<"\"">> \o s \o <<"\"">>

\* JSON.stringify of an array whose elements are already rendered
JsonArray(rendered) == <<"[">> \o Join(rendered, <<",">>) \o <<"]">>

\* crypto sha256 hex digest, idealised as an injective function of its input
hash(data) == <<"h", "(">> \o data \o <<")">>

(* ------------------------------------------------------------------ *)
(* Sheet extraction and fingerprint                                    *)
(* A sheet is its raw matrix: a sequence of rows, each a sequence of   *)
(* cell strings, row 1 being the header row.  A sheet without a range  *)
(* ("!ref") is the empty matrix.                                       *)
(* ------------------------------------------------------------------ *)

normalizeCell(v) == IF v = Undef THEN EmptyStr ELSE v

isRowAllEmpty(rowObj) ==
  \/ Len(rowObj) = 0
  \/ \A i \in 1..Len(rowObj) : Trim(normalizeCell(rowObj[i][2])) = EmptyStr

EmptyColPrefix == <<"_", "_", "E", "M", "P", "T", "Y">>

\* the inner loop of extractSheet: columns c..Len(headers) of one matrix row
RECURSIVE ExtractRow(_, _, _, _)
ExtractRow(headers, rowArr, c, row) ==
  IF c > Len(headers) THEN row
  ELSE LET col == IF headers[c] # EmptyStr THEN headers[c]
                  ELSE EmptyColPrefix \o <<"_">> \o NumStr(c - 1)
           cell == IF c <= Len(rowArr) THEN rowArr[c] ELSE EmptyStr
       IN ExtractRow(headers, rowArr, c + 1, ObjSet(row, col, normalizeCell(cell)))

\* the outer loop of extractSheet: matrix rows r..Len(matrix)
RECURSIVE ExtractRows(_, _, _)
ExtractRows(matrix, headers, r) ==
  IF r > Len(matrix) THEN << >>
  ELSE LET row == ExtractRow(headers, matrix[r], 1, << >>)
       IN (IF isRowAllEmpty(row) THEN << >> ELSE <<row>>)
            \o ExtractRows(matrix, headers, r + 1)

extractSheet(sheet) ==
  IF sheet = << >> THEN [headers |-> << >>, rows |-> << >>]
  ELSE LET headers == [c \in 1..Len(sheet[1]) |-> Trim(sheet[1][c])]
       IN [headers |-> headers, rows |-> ExtractRows(sheet, headers, 2)]

JsonStringArray(arr) == JsonArray([i \in 1..Len(arr) |-> JsonString(arr[i])])

\* the bytes fed to the hasher: JSON.stringify(row) of every matrix row
RECURSIVE SheetBytes(_)
SheetBytes(matrix) ==
  IF matrix = << >> THEN << >>
  ELSE JsonStringArray(Head(matrix)) \o SheetBytes(Tail(matrix))

hashSheet(sheet) == hash(SheetBytes(sheet))

(* ------------------------------------------------------------------ *)
(* Header diff                                                         *)
(* ------------------------------------------------------------------ *)

S_HEADER == <<"H", "E", "A", "D", "E", "R">>
S_DASH == <<"-">>
S_ROW == <<"R", "O", "W">>
S_DOTS == <<".", ".", ".">>
S_ROW_CREATED == <<"R", "o", "w", " ", "c", "r", "e", "a", "t", "e", "d">>
S_ROW_EXISTED == <<"R", "o", "w", " ", "e", "x", "i", "s", "t", "e", "d">>

\* variant of the cleaning that trims but keeps the blank names
CleanHeaders_KeepBlanks(hs) == [i \in 1..Len(hs) |-> Trim(hs[i])]

CleanHeaders(hs) ==
  LET trimmed == [i \in 1..Len(hs) |-> Trim(hs[i])]
      NonBlank(h) == h # EmptyStr
  IN SelectSeq(trimmed, NonBlank)

diffHeaders(prevHeaders, currHeaders) ==
  LET prev == CleanHeaders(prevHeaders)
      curr == CleanHeaders(currHeaders)
      prevSet == Range(prev)
      currSet == Range(curr)
      NotInPrev(h) == h \notin prevSet
      NotInCurr(h) == h \notin currSet
      added == SelectSeq(curr, NotInPrev)
      removed == SelectSeq(prev, NotInCurr)
      sameSet == /\ Len(prev) = Len(curr)
                 /\ \A i \in 1..Len(prev) : prev[i] \in currSet
                 /\ \A i \in 1..Len(curr) : curr[i] \in prevSet
      orderChanged == \E i \in 1..Len(prev) : curr[i] # prev[i]
  IN (IF Len(added) > 0
      THEN <<[row |-> S_HEADER, column |-> S_DASH, type |-> "Header Added",
              before |-> EmptyStr, after |-> Join(added, <<",", " ">>),
              severity |-> "STRUCTURAL"]>>
      ELSE << >>)
     \o
     (IF Len(removed) > 0
      THEN <<[row |-> S_HEADER, column |-> S_DASH, type |-> "Header Removed",
              before |-> Join(removed, <<",", " ">>), after |-> EmptyStr,
              severity |-> "STRUCTURAL"]>>
      ELSE << >>)
     \o
     (IF sameSet /\ orderChanged
      THEN <<[row |-> S_HEADER, column |-> S_DASH, type |-> "Header Order Changed",
              before |-> Join(prev, <<" ", "|", " ">>),
              after |-> Join(curr, <<" ", "|", " ">>),
              severity |-> "STRUCTURAL"]>>
      ELSE << >>)

(* ------------------------------------------------------------------ *)
(* Row-id diff engine                                                  *)
(* ------------------------------------------------------------------ *)

\* process.env.ROW_ID_COLUMN || "id", trimmed
ROW_ID_COLUMN == <<"i", "d">>

MAX_CHANGES == 200

S_ID_PREFIX == <<"i", "d", ":">>
S_SIG_PREFIX == <<"s", "i", "g", ":">>

\* Array.prototype.find over the keys: the first key naming the id column
FindIdKey(keys) ==
  LET IsId(k) == ToLowerCase(Trim(k)) = ToLowerCase(ROW_ID_COLUMN)
      hits == SelectSeq(keys, IsId)
  IN IF hits = << >> THEN Undef ELSE hits[1]

\* Array.prototype.sort with the comparator on the pair's column name (insertion sort)
RECURSIVE InsertPair(_, _)
InsertPair(sorted, pair) ==
  IF sorted = << >> THEN <<pair>>
  ELSE IF LocaleLess(pair[1], Head(sorted)[1]) THEN <<pair>> \o sorted
  ELSE <<Head(sorted)>> \o InsertPair(Tail(sorted), pair)

RECURSIVE SortPairs(_)
SortPairs(pairs) ==
  IF pairs = << >> THEN << >>
  ELSE InsertPair(SortPairs(SubSeq(pairs, 1, Len(pairs) - 1)), pairs[Len(pairs)])

\* JSON.stringify([[k, v], ...])
JsonPairs(pairs) ==
  JsonArray([i \in 1..Len(pairs) |-> JsonStringArray(<<pairs[i][1], pairs[i][2]>>)])

\* the fallback of getRowKey: the signature of the labelled, non-blank cells
RowSignature(row, named) ==
  LET NonBlankPair(p) == p[2] # EmptyStr
      pairs == [i \in 1..Len(named) |-> <<named[i], Trim(normalizeCell(ObjGet(row, named[i])))>>]
  IN S_SIG_PREFIX \o hash(JsonPairs(SortPairs(SelectSeq(pairs, NonBlankPair))))

\* getRowKey once the id column idKey and its trimmed value raw are known
RowKeyOf(row, idKey, raw) ==
  LET Labelled(k) == k # EmptyStr /\ ~StartsWith(k, EmptyColPrefix)
  IN IF idKey # Undef /\ idKey # EmptyStr /\ raw # EmptyStr
     THEN S_ID_PREFIX \o raw
     ELSE RowSignature(row, SelectSeq(ObjectKeys(row), Labelled))

\* getRowKey once the id column idKey is known
RowKeyWithId(row, idKey) == RowKeyOf(row, idKey, Trim(normalizeCell(ObjGet(row, idKey))))

getRowKey(row) == RowKeyWithId(row, FindIdKey(ObjectKeys(row)))

\* indexRowsByKey: counts.set(baseKey, n)
CountKey(counts, baseKey) ==
  ObjSet(counts, baseKey, (IF HasKey(counts, baseKey) THEN ObjGet(counts, baseKey) ELSE 0) + 1)

\* indexRowsByKey: map.set(key, row), the key suffixed from the second occurrence on
MapSetRow(map, counts, baseKey, row) ==
  LET n == (IF HasKey(counts, baseKey) THEN ObjGet(counts, baseKey) ELSE 0) + 1
  IN ObjSet(map, IF n = 1 THEN baseKey ELSE baseKey \o <<"#">> \o NumStr(n), row)

\* the loop of indexRowsByKey over rows i..Len(rows); map and counts are Maps
RECURSIVE IndexRowsLoop(_, _, _, _)
IndexRowsLoop(rows, i, map, counts) ==
  IF i > Len(rows) THEN map
  ELSE IndexRowsLoop(rows, i + 1, MapSetRow(map, counts, getRowKey(rows[i]), rows[i]),
                     CountKey(counts, getRowKey(rows[i])))

indexRowsByKey(rows) == IndexRowsLoop(rows, 1, << >>, << >>)

\* new Set([...a, ...b]) as the sequence of its elements in insertion order:
\* the first occurrences, in the order of seq
Dedupe(seq) ==
  LET firsts == {i \in 1..Len(seq) : \A j \in 1..(i - 1) : seq[j] # seq[i]}
  IN [n \in 1..Cardinality(firsts) |->
        seq[CHOOSE i \in firsts : Cardinality({j \in firsts : j <= i}) = n]]

\* variant of the inner loop that compares the untrimmed previous cell
RECURSIVE DiffCols_RawBefore(_, _, _, _, _, _, _)
DiffCols_RawBefore(cols, c, key, oldRow, newRow, nStructural, dataChanges) ==
  IF c > Len(cols) THEN dataChanges
  ELSE LET col == cols[c]
           before == normalizeCell(ObjGet(oldRow, col))
           after == Trim(normalizeCell(ObjGet(newRow, col)))
           pushed == Append(dataChanges,
                            [row |-> key, column |-> col, type |-> "Updated",
                             before |-> before, after |-> after, severity |-> "DATA"])
       IN IF col = EmptyStr \/ StartsWith(col, EmptyColPrefix) \/ before = after
          THEN DiffCols_RawBefore(cols, c + 1, key, oldRow, newRow, nStructural, dataChanges)
          ELSE IF nStructural + Len(pushed) >= MAX_CHANGES THEN pushed
          ELSE DiffCols_RawBefore(cols, c + 1, key, oldRow, newRow, nStructural, pushed)

\* the inner loop of diffRowsById over cols[c..]; returns the data changes
RECURSIVE DiffCols(_, _, _, _, _, _, _)
DiffCols(cols, c, key, oldRow, newRow, nStructural, dataChanges) ==
  IF c > Len(cols) THEN dataChanges
  ELSE LET col == cols[c]
           before == Trim(normalizeCell(ObjGet(oldRow, col)))
           after == Trim(normalizeCell(ObjGet(newRow, col)))
           type == IF before # EmptyStr /\ after = EmptyStr THEN "Cleared"
                   ELSE IF before = EmptyStr /\ after # EmptyStr THEN "Added"
                   ELSE "Updated"
           pushed == Append(dataChanges,
                            [row |-> key, column |-> col, type |-> type,
                             before |-> before, after |-> after, severity |-> "DATA"])
       IN IF col = EmptyStr \/ StartsWith(col, EmptyColPrefix)
          THEN DiffCols(cols, c + 1, key, oldRow, newRow, nStructural, dataChanges)
          ELSE IF before = after
          THEN DiffCols(cols, c + 1, key, oldRow, newRow, nStructural, dataChanges)
          ELSE IF nStructural + Len(pushed) >= MAX_CHANGES THEN pushed
          ELSE DiffCols(cols, c + 1, key, oldRow, newRow, nStructural, pushed)

\* variant of the iteration that walks the columns of the previous row only
DiffKeyStep_OldColumns(key, prevMap, currMap, acc) ==
  IF ~HasKey(prevMap, key) /\ HasKey(currMap, key)
  THEN [structural |-> Append(acc.structural,
                              [row |-> key, column |-> S_ROW, type |-> "Row Added",
                               before |-> EmptyStr, after |-> S_ROW_CREATED,
                               severity |-> "STRUCTURAL"]),
        dataChanges |-> acc.dataChanges]
  ELSE IF HasKey(prevMap, key) /\ ~HasKey(currMap, key)
  THEN [structural |-> Append(acc.structural,
                              [row |-> key, column |-> S_ROW, type |-> "Row Deleted",
                               before |-> S_ROW_EXISTED, after |-> EmptyStr,
                               severity |-> "STRUCTURAL"]),
        dataChanges |-> acc.dataChanges]
  ELSE [structural |-> acc.structural,
        dataChanges |-> DiffCols(ObjectKeys(ObjGet(prevMap, key)),
                                 1, key, ObjGet(prevMap, key), ObjGet(currMap, key),
                                 Len(acc.structural), acc.dataChanges)]

\* one iteration of the outer loop of diffRowsById, for key; acc holds the
\* two lists built so far
DiffKeyStep(key, prevMap, currMap, acc) ==
  IF ~HasKey(prevMap, key) /\ HasKey(currMap, key)
  THEN [structural |-> Append(acc.structural,
                              [row |-> key, column |-> S_ROW, type |-> "Row Added",
                               before |-> EmptyStr, after |-> S_ROW_CREATED,
                               severity |-> "STRUCTURAL"]),
        dataChanges |-> acc.dataChanges]
  ELSE IF HasKey(prevMap, key) /\ ~HasKey(currMap, key)
  THEN [structural |-> Append(acc.structural,
                              [row |-> key, column |-> S_ROW, type |-> "Row Deleted",
                               before |-> S_ROW_EXISTED, after |-> EmptyStr,
                               severity |-> "STRUCTURAL"]),
        dataChanges |-> acc.dataChanges]
  ELSE [structural |-> acc.structural,
        dataChanges |-> DiffCols(Dedupe(ObjectKeys(ObjGet(prevMap, key))
                                          \o ObjectKeys(ObjGet(currMap, key))),
                                 1, key, ObjGet(prevMap, key), ObjGet(currMap, key),
                                 Len(acc.structural), acc.dataChanges)]

\* the test at the top of the outer loop: every key seen, or the cap reached
DiffKeysDone(allKeys, k, acc) ==
  k > Len(allKeys) \/ Len(acc.structural) + Len(acc.dataChanges) >= MAX_CHANGES

\* the outer loop of diffRowsById over allKeys[k..]
RECURSIVE DiffKeys(_, _, _, _, _)
DiffKeys(allKeys, k, prevMap, currMap, acc) ==
  IF DiffKeysDone(allKeys, k, acc) THEN acc
  ELSE DiffKeys(allKeys, k + 1, prevMap, currMap,
                DiffKeyStep(allKeys[k], prevMap, currMap, acc))

S_SHOWING == <<"S", "h", "o", "w", "i", "n", "g", " ", "f", "i", "r", "s", "t", " ">>
S_CHANGES_ONLY == <<" ", "c", "h", "a", "n", "g", "e", "s", " ", "o", "n", "l", "y">>

\* the end of diffRowsById: the truncation marker after the combined list
CapChanges(combined) ==
  IF Len(combined) >= MAX_CHANGES
  THEN Append(combined,
              [row |-> S_DOTS, column |-> S_DASH, type |-> "Truncated",
               before |-> EmptyStr,
               after |-> S_SHOWING \o NumStr(MAX_CHANGES) \o S_CHANGES_ONLY,
               severity |-> "INFO"])
  ELSE combined

\* const structural = []; const dataChanges = []
NoChanges == [structural |-> << >>, dataChanges |-> << >>]

\* combined = [...structural, ...dataChanges]
Combine(res) == res.structural \o res.dataChanges

\* diffRowsById once both sides are indexed
DiffMaps(prevMap, currMap) ==
  CapChanges(Combine(DiffKeys(Dedupe(ObjectKeys(prevMap) \o ObjectKeys(currMap)), 1,
                              prevMap, currMap, NoChanges)))

diffRowsById(prevRows, currRows) ==
  DiffMaps(indexRowsByKey(prevRows), indexRowsByKey(currRows))

(* ------------------------------------------------------------------ *)
(* The stores: state document, snapshot documents, lock marker         *)
(* ------------------------------------------------------------------ *)

STALE_LOCK_MS == 10 * 60 * 1000

\* the invocations that may overlap (operating-system processes of the job)
Procs == {"p1", "p2"}
SlotRank(p) == IF p = "p1" THEN 1 ELSE 2

\* bounds of the exploration
MaxRuns == 3
MaxEdits == 1
MaxTicks == 2
MaxCrashes == 1

\* tab names; the last two differ only in a character sanitizeFilename replaces
TabS == <<"S">>
TabT1 == <<"T", "|">>
TabT2 == <<"T", "_">>
TabOrder == <<TabS, TabT1, TabT2>>
TabNames == Range(TabOrder)

\* raw matrices a tab can hold upstream
SheetA == << << <<"i", "d">>, <<"n">> >>, << <<"1">>, <<"a">> >> >>
SheetB == << << <<"i", "d">>, <<"n">> >>, << <<"1">>, <<"b">> >> >>
\* SheetA with trailing whitespace in a cell and a blank row appended
SheetW == << << <<"i", "d">>, <<"n">> >>, << <<"1">>, <<"a", " ">> >>, << << >>, <<" ">> >> >>
SheetTable == <<SheetA, SheetB, SheetW>>
SheetCodes == 1..Len(SheetTable)
Absent == 0

VARIABLES
  upstream,   \* the published workbook: tab name -> sheet code, or Absent
  edits,      \* number of upstream edits so far
  crashes,    \* number of runs killed so far
  runs,       \* number of invocations so far; also the source of process ids
  stateDoc,   \* data/state.json: [exists, tabHashes]
  snapshots,  \* data/snapshots: file name -> {headers, rows}
  lock,       \* data/monitor.lock: [exists, pid, age, staleRecovered]
  proc,       \* per invocation slot: position and locals of main
  aborted,    \* what the last run that aborted before Commit had staged
  legacy,     \* the second implementation: its state file and its run
  diff,       \* one application of the diff engine: its arguments and results
  io,         \* the data directory at the level of file operations, and one writer
  staleActive \* history: a marker was older than the threshold while its run was active

vars == <<upstream, edits, crashes, runs, stateDoc, snapshots, lock, proc, aborted,
          legacy, diff, io, staleActive>>

\* workbook.SheetNames of a fetched workbook
SheetNames(w) ==
  LET Present(t) == w[t] # Absent
  IN SelectSeq(TabOrder, Present)

\* workbook.Sheets[name]
SheetOf(w, name) == SheetTable[w[name]]

FORBIDDEN_CHARS == {"/", "\\", "?", "%", "*", ":", "|", "\"", "<", ">"}

sanitizeFilename(name) ==
  [i \in 1..Len(name) |-> IF name[i] \in FORBIDDEN_CHARS THEN "_" ELSE name[i]]

SnapshotFile(tabName) == sanitizeFilename(tabName) \o <<".", "j", "s", "o", "n">>

NoState == [exists |-> FALSE, tabHashes |-> << >>]

loadState(doc) == IF doc.exists THEN doc.tabHashes ELSE << >>

SnapshotFiles == {SnapshotFile(t) : t \in TabNames}

\* a snapshot file that does not exist
NoFile == [exists |-> FALSE, headers |-> << >>, rows |-> << >>]

\* a path with no file behind it, as existsSync and readFileSync see it
NoBytes == [exists |-> FALSE, bytes |-> << >>]

FileOf(snapshot) == [exists |-> TRUE, headers |-> snapshot.headers, rows |-> snapshot.rows]

loadSnapshot(files, tabName) ==
  LET f == files[SnapshotFile(tabName)]
  IN IF f.exists THEN [headers |-> f.headers, rows |-> f.rows]
     ELSE [headers |-> << >>, rows |-> << >>]

\* atomicWriteJson of the snapshot file: the rename replaces the target
saveSnapshot(files, tabName, snapshot) ==
  [files EXCEPT ![SnapshotFile(tabName)] = FileOf(snapshot)]

deleteSnapshot(files, tabName) ==
  [files EXCEPT ![SnapshotFile(tabName)] = NoFile]

\* saveState: atomicWriteJson of {tabHashes, checkedAt}; no code reads checkedAt,
\* which is left out of the document
saveState(tabHashes) == [exists |-> TRUE, tabHashes |-> tabHashes]

\* the modification time of the marker is kept as its age, the difference that
\* acquireLock computes from the clock and stat.mtimeMs
NoLock == [exists |-> FALSE, pid |-> 0, age |-> 0, staleRecovered |-> FALSE]

\* the marker acquireLock writes: {pid, startedAt} and, after recovery, staleRecovered
LockMarker(pid, recovered) ==
  [exists |-> TRUE, pid |-> pid, age |-> 0, staleRecovered |-> recovered]

\* a staleness test that also takes a marker of exactly the threshold age
IsStale_Inclusive(age) == age >= STALE_LOCK_MS

\* the staleness test of acquireLock
IsStale(age) == age > STALE_LOCK_MS

(* ------------------------------------------------------------------ *)
(* main: one run                                                       *)
(* ------------------------------------------------------------------ *)

NoWorkbook == [t \in TabNames |-> Absent]

\* no statSync of the marker was made
NoStat == -1

\* a slot between runs
IdleProc ==
  [pc |-> "idle", pid |-> 0, locked |-> FALSE, st |-> << >>, wb |-> NoWorkbook,
   allChanges |-> << >>, idx |-> 1, ops |-> << >>, dirty |-> FALSE,
   outcome |-> "none", opens |-> 0, statAge |-> NoStat, unlinked |-> FALSE,
   unlinkedLive |-> FALSE, quiet |-> FALSE]

NoAbort == [valid |-> FALSE, pid |-> 0, wb |-> NoWorkbook, allChanges |-> << >>,
            addedTabs |-> << >>, deletedTabs |-> << >>, changedTabs |-> << >>]

\* a test that never takes the first-run branch
isFirstRun_Never(st) == FALSE

isFirstRun(st) == Len(ObjectKeys(st)) = 0

\* currentHashes of main: one fingerprint per sheet name
currentHashes(w) ==
  LET names == SheetNames(w)
  IN [i \in 1..Len(names) |-> <<names[i], hashSheet(SheetOf(w, names[i]))>>]

addedTabs(st, w) ==
  LET New(t) == ~HasKey(st, t)
  IN SelectSeq(SheetNames(w), New)

deletedTabs(st, w) ==
  LET Gone(t) == w[t] = Absent
  IN SelectSeq(ObjectKeys(st), Gone)

changedTabs(st, w) ==
  LET Changed(t) == HasKey(st, t) /\ ObjGet(st, t) # hashSheet(SheetOf(w, t))
  IN SelectSeq(SheetNames(w), Changed)

\* the changes of one changed tab: header changes, then row changes
SnapChanges(prevSnap, currSnap) ==
  diffHeaders(prevSnap.headers, currSnap.headers)
    \o diffRowsById(prevSnap.rows, currSnap.rows)

TabChanges(files, w, tab) ==
  SnapChanges(loadSnapshot(files, tab), extractSheet(SheetOf(w, tab)))

\* allChanges[tab] = changes, for a non-empty list only
AddChanges(acc, tab, changes) ==
  IF Len(changes) > 0 THEN ObjSet(acc, tab, changes) ELSE acc

\* the loop over changedTabs that fills allChanges
RECURSIVE CollectChanges(_, _, _, _)
CollectChanges(files, w, tabs, acc) ==
  IF tabs = << >> THEN acc
  ELSE CollectChanges(files, w, Tail(tabs),
                      AddChanges(acc, Head(tabs), TabChanges(files, w, Head(tabs))))

\* the keys of stagedSnapshots, in insertion order
stagedTabs(st, w) == changedTabs(st, w) \o addedTabs(st, w)

\* a notification test that overlooks removed tabs
willEmail_IgnoresDeleted(allChanges, added, deleted) ==
  Len(ObjectKeys(allChanges)) > 0 \/ Len(added) > 0

willEmail(allChanges, added, deleted) ==
  Len(ObjectKeys(allChanges)) > 0 \/ Len(added) > 0 \/ Len(deleted) > 0

\* entries of a run's operation log
OpSaveSnapshot(tab, snapshot) == <<"saveSnapshot", tab, snapshot>>
OpDeleteSnapshot(tab) == <<"deleteSnapshot", tab, << >>>>
OpSaveState(tabHashes) == <<"saveState", << >>, tabHashes>>
OpSendEmail(ok) == <<"sendEmail", << >>, ok>>

\* proc after a step of p that wrote a store: nobody's view of the stores is current
WriteBy(p, r) ==
  [q \in Procs |-> IF q = p THEN [r EXCEPT !.quiet = FALSE]
                   ELSE [proc[q] EXCEPT !.quiet = FALSE]]

\* where the try block goes after sendEmail resolved, and after each commit loop
CommitPc(st, w, phase) ==
  IF phase = "snap" /\ Len(stagedTabs(st, w)) > 0 THEN "commit_snap"
  ELSE IF phase \in {"snap", "del"} /\ Len(deletedTabs(st, w)) > 0 THEN "commit_del"
  ELSE "commit_state"

\* the run that wrote the marker is still running
OwnerActive(marker) ==
  \E o \in Procs : proc[o].locked /\ proc[o].pid = marker.pid

\* what an aborted run had staged
Staged(r) ==
  [valid |-> TRUE, pid |-> r.pid, wb |-> r.wb, allChanges |-> r.allChanges,
   addedTabs |-> addedTabs(r.st, r.wb), deletedTabs |-> deletedTabs(r.st, r.wb),
   changedTabs |-> changedTabs(r.st, r.wb)]

(* ------------------------------------------------------------------ *)
(* The second implementation (no lock, no snapshots, rows by position) *)
(* ------------------------------------------------------------------ *)

\* the inner loop of extractTabs: columns c..Len(headers) of one matrix row
RECURSIVE ExtractTabRow(_, _, _, _)
ExtractTabRow(headers, rowArr, c, row) ==
  IF c > Len(headers) THEN row
  ELSE LET col == IF headers[c] # EmptyStr THEN headers[c]
                  ELSE EmptyColPrefix \o <<"_">> \o NumStr(c - 1)
           cell == IF c <= Len(rowArr) THEN rowArr[c] ELSE EmptyStr
       IN ExtractTabRow(headers, rowArr, c + 1, ObjSet(row, col, cell))

\* extractTabs: every row below the header row is kept, blank ones included
extractTabs(w) ==
  LET names == SheetNames(w)
      RowsOf(sheet) ==
        IF sheet = << >> THEN << >>
        ELSE LET headers == [c \in 1..Len(sheet[1]) |-> Trim(sheet[1][c])]
             IN [r \in 1..(Len(sheet) - 1) |->
                   ExtractTabRow(headers, sheet[r + 1], 1, << >>)]
  IN [i \in 1..Len(names) |-> <<names[i], RowsOf(SheetOf(w, names[i]))>>]

\* diffTabs: the loop over the columns of one row position; a missing
\* row is passed as the empty object
RECURSIVE DiffTabCols(_, _, _, _, _, _)
DiffTabCols(cols, tab, i, oldRow, newRow, acc) ==
  IF cols = << >> THEN acc
  ELSE LET col == Head(cols)
           before == IF HasKey(oldRow, col) THEN ObjGet(oldRow, col) ELSE EmptyStr
           after == IF HasKey(newRow, col) THEN ObjGet(newRow, col) ELSE EmptyStr
           type == IF before # EmptyStr /\ after = EmptyStr THEN "Cleared"
                   ELSE IF before = EmptyStr /\ after # EmptyStr THEN "Added"
                   ELSE "Updated"
       IN DiffTabCols(Tail(cols), tab, i, oldRow, newRow,
                      IF col = EmptyStr \/ StartsWith(col, EmptyColPrefix) \/ before = after
                      THEN acc
                      ELSE Append(acc, [tab |-> tab, row |-> i + 2, column |-> col,
                                        type |-> type, before |-> before,
                                        after |-> after, severity |-> "DATA"]))

\* diffTabs: the loop over the row positions i (zero-based) of one tab
RECURSIVE DiffTabRows(_, _, _, _, _)
DiffTabRows(tab, i, oldRows, newRows, acc) ==
  IF i >= Len(oldRows) /\ i >= Len(newRows) THEN acc
  ELSE LET hasOld == i < Len(oldRows)
           hasNew == i < Len(newRows)
           oldRow == IF hasOld THEN oldRows[i + 1] ELSE << >>
           newRow == IF hasNew THEN newRows[i + 1] ELSE << >>
           SomeValue(row) == \E k \in 1..Len(row) : row[k][2] # EmptyStr
           cols == Dedupe(ObjectKeys(oldRow) \o ObjectKeys(newRow))
       IN DiffTabRows(tab, i + 1, oldRows, newRows,
            IF ~hasOld /\ hasNew /\ SomeValue(newRow)
            THEN Append(acc, [tab |-> tab, row |-> i + 2, column |-> S_ROW,
                              type |-> "Row Added", before |-> EmptyStr,
                              after |-> S_ROW_CREATED, severity |-> "STRUCTURAL"])
            ELSE IF hasOld /\ ~hasNew
            THEN Append(acc, [tab |-> tab, row |-> i + 2, column |-> S_ROW,
                              type |-> "Row Deleted", before |-> S_ROW_EXISTED,
                              after |-> EmptyStr, severity |-> "STRUCTURAL"])
            ELSE DiffTabCols(cols, tab, i, oldRow, newRow, acc))

\* diffTabs: the loop over the current tab names
RECURSIVE DiffTabsLoop(_, _, _, _)
DiffTabsLoop(names, prevTabs, currTabs, acc) ==
  IF names = << >> THEN acc
  ELSE LET tab == Head(names)
           oldRows == IF HasKey(prevTabs, tab) THEN ObjGet(prevTabs, tab) ELSE << >>
       IN DiffTabsLoop(Tail(names), prevTabs, currTabs,
                       DiffTabRows(tab, 0, oldRows, ObjGet(currTabs, tab), acc))

diffTabs(prevTabs, currTabs) ==
  LET NotPrev(t) == ~HasKey(prevTabs, t)
      NotCurr(t) == ~HasKey(currTabs, t)
  IN [changes |-> DiffTabsLoop(ObjectKeys(currTabs), prevTabs, currTabs, << >>),
      addedTabs |-> SelectSeq(ObjectKeys(currTabs), NotPrev),
      deletedTabs |-> SelectSeq(ObjectKeys(prevTabs), NotCurr)]

\* ./state.json of the second implementation, absent
NoTabRows == [exists |-> FALSE, tabRows |-> << >>]

\* its loadState
loadTabRows(doc) == IF doc.exists THEN doc.tabRows ELSE << >>

\* the second implementation between runs, before its first run
LegacyIdle ==
  [pc |-> "idle", runs |-> 0, file |-> NoTabRows, before |-> NoTabRows,
   st |-> << >>, cur |-> << >>, ops |-> << >>]

\* no application of the diff engine is being followed
NoDiff ==
  [pc |-> "none", prevRows |-> << >>, currRows |-> << >>, prevHeaders |-> << >>,
   currHeaders |-> << >>, prevMap |-> << >>, currMap |-> << >>, allKeys |-> << >>,
   k |-> 1, acc |-> NoChanges, changes |-> << >>]

\* no file operation is being followed
NoIo ==
  [pc |-> "none", pid |-> 0, now |-> 0, dir |-> << >>, target |-> << >>,
   tmp |-> << >>, bytes |-> << >>, written |-> 0, before |-> NoBytes, writes |-> 0,
   aborts |-> 0]

\* the published workbook when the job is installed: two tabs, or no tab yet
InitialWorkbooks == {[t \in TabNames |-> IF t = TabT2 THEN Absent ELSE 1], NoWorkbook}

Init ==
  /\ upstream \in InitialWorkbooks
  /\ edits = 0
  /\ crashes = 0
  /\ runs = 0
  /\ stateDoc = NoState
  /\ snapshots = [f \in SnapshotFiles |-> NoFile]
  /\ lock = NoLock
  /\ proc = [p \in Procs |-> IdleProc]
  /\ aborted = NoAbort
  /\ staleActive = FALSE
  /\ legacy = LegacyIdle
  /\ diff = NoDiff
  /\ io = NoIo

\* the scheduler starts the job in a fresh process; free slots are
\* interchangeable, and the first free one is taken.  The two implementations
\* share no file, so their runs are explored one implementation at a time
Start(p) ==
  /\ proc[p].pc = "idle"
  /\ p = CHOOSE q \in Procs : proc[q].pc = "idle" /\ \A o \in Procs : proc[o].pc = "idle" => SlotRank(q) <= SlotRank(o)
  /\ runs < MaxRuns
  /\ legacy = LegacyIdle
  /\ runs' = runs + 1
  /\ proc' = [proc EXCEPT ![p] = [IdleProc EXCEPT !.pc = "acq_open", !.pid = runs + 1]]
  /\ UNCHANGED <<io, diff, staleActive, legacy, upstream, edits, crashes, stateDoc, snapshots, lock, aborted>>

\* acquireLock: fs.openSync(LOCK_FILE, "wx") and the write of the payload
AcqOpen(p) ==
  /\ proc[p].pc = "acq_open"
  /\ IF ~lock.exists
     THEN /\ lock' = LockMarker(proc[p].pid, FALSE)
          /\ proc' = [proc EXCEPT ![p].pc = "load", ![p].locked = TRUE,
                                  ![p].opens = @ + 1]
     ELSE /\ lock' = lock
          /\ proc' = [proc EXCEPT ![p].pc = "acq_stat", ![p].opens = @ + 1]
  /\ UNCHANGED <<io, diff, staleActive, legacy, upstream, edits, crashes, runs, stateDoc, snapshots, aborted>>

\* acquireLock: fs.statSync(LOCK_FILE) and the age test
AcqStat(p) ==
  /\ proc[p].pc = "acq_stat"
  /\ proc' = IF lock.exists /\ IsStale(lock.age)
             THEN [proc EXCEPT ![p].pc = "acq_unlink", ![p].statAge = lock.age]
             ELSE [proc EXCEPT ![p].pc = "finally", ![p].outcome = "busy",
                               ![p].statAge = IF lock.exists THEN lock.age ELSE NoStat]
  /\ UNCHANGED <<io, diff, staleActive, legacy, upstream, edits, crashes, runs, stateDoc, snapshots, lock, aborted>>

\* acquireLock: fs.unlinkSync(LOCK_FILE) of the stale marker
AcqUnlink(p) ==
  /\ proc[p].pc = "acq_unlink"
  /\ IF lock.exists
     THEN /\ lock' = NoLock
          /\ proc' = [proc EXCEPT ![p].pc = "acq_retry", ![p].unlinked = TRUE,
                                  ![p].unlinkedLive = OwnerActive(lock)]
     ELSE /\ lock' = lock
          /\ proc' = [proc EXCEPT ![p].pc = "finally", ![p].outcome = "busy"]
  /\ UNCHANGED <<io, diff, staleActive, legacy, upstream, edits, crashes, runs, stateDoc, snapshots, aborted>>

\* acquireLock: the single retry of fs.openSync(LOCK_FILE, "wx")
AcqRetry(p) ==
  /\ proc[p].pc = "acq_retry"
  /\ IF ~lock.exists
     THEN /\ lock' = LockMarker(proc[p].pid, TRUE)
          /\ proc' = [proc EXCEPT ![p].pc = "load", ![p].locked = TRUE,
                                  ![p].opens = @ + 1]
     ELSE /\ lock' = lock
          /\ proc' = [proc EXCEPT ![p].pc = "finally", ![p].outcome = "busy",
                                  ![p].opens = @ + 1]
  /\ UNCHANGED <<io, diff, staleActive, legacy, upstream, edits, crashes, runs, stateDoc, snapshots, aborted>>

\* main: loadState
LoadState(p) ==
  /\ proc[p].pc = "load"
  /\ proc' = [proc EXCEPT ![p].pc = "fetch", ![p].st = loadState(stateDoc),
                          ![p].quiet = TRUE]
  /\ UNCHANGED <<io, diff, staleActive, legacy, upstream, edits, crashes, runs, stateDoc, snapshots, lock, aborted>>

\* main: axios.get and XLSX.read succeed
Fetch(p) ==
  /\ proc[p].pc = "fetch"
  /\ proc' = [proc EXCEPT ![p].wb = upstream, ![p].idx = 1,
                          ![p].pc = IF ~isFirstRun(proc[p].st) THEN "stage"
                                    ELSE IF Len(SheetNames(upstream)) > 0 THEN "first_snap"
                                    ELSE "first_state"]
  /\ UNCHANGED <<io, diff, staleActive, legacy, upstream, edits, crashes, runs, stateDoc, snapshots, lock, aborted>>

\* main: the download or the parse throws (network error, timeout, bad file)
FetchFail(p) ==
  /\ proc[p].pc = "fetch"
  /\ proc' = [proc EXCEPT ![p].pc = "finally", ![p].outcome = "failed"]
  /\ UNCHANGED <<io, diff, staleActive, legacy, upstream, edits, crashes, runs, stateDoc, snapshots, lock, aborted>>

\* main, first run: one iteration of the saveSnapshot loop
FirstSaveSnapshot(p) ==
  /\ proc[p].pc = "first_snap"
  /\ LET r == proc[p]
         names == SheetNames(r.wb)
         tab == names[r.idx]
         snap == extractSheet(SheetOf(r.wb, tab))
         files == saveSnapshot(snapshots, tab, snap)
     IN /\ snapshots' = files
        /\ proc' = WriteBy(p, [r EXCEPT !.idx = @ + 1,
                                        !.ops = Append(@, OpSaveSnapshot(tab, snap)),
                                        !.dirty = @ \/ files # snapshots,
                                        !.pc = IF r.idx = Len(names) THEN "first_state"
                                               ELSE "first_snap"])
  /\ aborted' = NoAbort
  /\ UNCHANGED <<io, diff, staleActive, legacy, upstream, edits, crashes, runs, stateDoc, lock>>

\* main, first run: saveState of the baseline, then return
FirstSaveState(p) ==
  /\ proc[p].pc = "first_state"
  /\ LET r == proc[p]
         doc == saveState(currentHashes(r.wb))
     IN /\ stateDoc' = doc
        /\ proc' = WriteBy(p, [r EXCEPT !.ops = Append(@, OpSaveState(doc.tabHashes)),
                                        !.dirty = @ \/ doc # stateDoc,
                                        !.pc = "finally", !.outcome = "ok"])
  /\ aborted' = NoAbort
  /\ UNCHANGED <<io, diff, staleActive, legacy, upstream, edits, crashes, runs, snapshots, lock>>

\* the locals of run r after the staging loops, given the changes found
StagedRun(r, changes) ==
  [r EXCEPT !.allChanges = changes,
            !.pc = IF willEmail(changes, addedTabs(r.st, r.wb), deletedTabs(r.st, r.wb))
                   THEN "notify" ELSE "noemail"]

\* a staging step that already persists the new fingerprints
Stage_Persists(p) ==
  /\ proc[p].pc = "stage"
  /\ LET r == StagedRun(proc[p], CollectChanges(snapshots, proc[p].wb,
                                   changedTabs(proc[p].st, proc[p].wb), << >>))
         doc == saveState(currentHashes(proc[p].wb))
     IN /\ stateDoc' = doc
        /\ proc' = WriteBy(p, [r EXCEPT !.ops = Append(@, OpSaveState(doc.tabHashes)),
                                        !.dirty = @ \/ doc # stateDoc])
  /\ aborted' = NoAbort
  /\ UNCHANGED <<io, diff, staleActive, legacy, upstream, edits, crashes, runs, snapshots, lock>>

\* main: the loop over changedTabs (loadSnapshot, extractSheet, the two diffs)
\* and the staging of the added tabs
Stage(p) ==
  /\ proc[p].pc = "stage"
  /\ proc' = [proc EXCEPT ![p] = StagedRun(proc[p], CollectChanges(snapshots, proc[p].wb,
                                     changedTabs(proc[p].st, proc[p].wb), << >>))]
  /\ UNCHANGED <<io, diff, staleActive, legacy, upstream, edits, crashes, runs, stateDoc, snapshots, lock, aborted>>

\* the staged snapshots of tabs, all saved
RECURSIVE SaveStaged(_, _, _)
SaveStaged(files, w, tabs) ==
  IF tabs = << >> THEN files
  ELSE SaveStaged(saveSnapshot(files, Head(tabs), extractSheet(SheetOf(w, Head(tabs)))),
                  w, Tail(tabs))

\* a failure path that persists the staged snapshots before giving up
ExportFail_SavesSnapshots(p) ==
  /\ proc[p].pc = "notify"
  /\ Len(ObjectKeys(proc[p].allChanges)) > 0
  /\ snapshots' = SaveStaged(snapshots, proc[p].wb, stagedTabs(proc[p].st, proc[p].wb))
  /\ proc' = [proc EXCEPT ![p].pc = "finally", ![p].outcome = "failed"]
  /\ aborted' = IF proc[p].quiet THEN Staged(proc[p]) ELSE aborted
  /\ UNCHANGED <<io, diff, staleActive, legacy, upstream, edits, crashes, runs, stateDoc, lock>>

\* main: exportSheetToCSV or zipFiles throws before sendEmail is called
ExportFail(p) ==
  /\ proc[p].pc = "notify"
  /\ Len(ObjectKeys(proc[p].allChanges)) > 0
  /\ proc' = [proc EXCEPT ![p].pc = "finally", ![p].outcome = "failed"]
  /\ aborted' = IF proc[p].quiet THEN Staged(proc[p]) ELSE aborted
  /\ UNCHANGED <<io, diff, staleActive, legacy, upstream, edits, crashes, runs, stateDoc, snapshots, lock>>

\* main: sendEmail resolves
SendOk(p) ==
  /\ proc[p].pc = "notify"
  /\ proc' = [proc EXCEPT ![p].ops = Append(@, OpSendEmail(TRUE)), ![p].idx = 1,
                          ![p].pc = CommitPc(proc[p].st, proc[p].wb, "snap")]
  /\ UNCHANGED <<io, diff, staleActive, legacy, upstream, edits, crashes, runs, stateDoc, snapshots, lock, aborted>>

\* a catch block that records the new fingerprints although sendEmail rejected
SendFail_Commits(p) ==
  /\ proc[p].pc = "notify"
  /\ LET r == proc[p]
         doc == saveState(currentHashes(r.wb))
     IN /\ stateDoc' = doc
        /\ proc' = [proc EXCEPT ![p].ops = @ \o <<OpSendEmail(FALSE),
                                                   OpSaveState(doc.tabHashes)>>,
                                ![p].dirty = @ \/ doc # stateDoc,
                                ![p].pc = "finally", ![p].outcome = "failed"]
  /\ aborted' = IF proc[p].quiet THEN Staged(proc[p]) ELSE aborted
  /\ UNCHANGED <<io, diff, staleActive, legacy, upstream, edits, crashes, runs, snapshots, lock>>

\* main: sendEmail rejects; control goes to the catch block
SendFail(p) ==
  /\ proc[p].pc = "notify"
  /\ proc' = [proc EXCEPT ![p].ops = Append(@, OpSendEmail(FALSE)),
                          ![p].pc = "finally", ![p].outcome = "failed"]
  /\ aborted' = IF proc[p].quiet THEN Staged(proc[p]) ELSE aborted
  /\ UNCHANGED <<io, diff, staleActive, legacy, upstream, edits, crashes, runs, stateDoc, snapshots, lock>>

\* main, commit: one iteration of the loop over stagedSnapshots
CommitSnapshot(p) ==
  /\ proc[p].pc = "commit_snap"
  /\ LET r == proc[p]
         tabs == stagedTabs(r.st, r.wb)
         tab == tabs[r.idx]
         snap == extractSheet(SheetOf(r.wb, tab))
         files == saveSnapshot(snapshots, tab, snap)
     IN /\ snapshots' = files
        /\ proc' = WriteBy(p, [r EXCEPT !.ops = Append(@, OpSaveSnapshot(tab, snap)),
                                        !.dirty = @ \/ files # snapshots,
                                        !.idx = IF r.idx = Len(tabs) THEN 1 ELSE @ + 1,
                                        !.pc = IF r.idx = Len(tabs)
                                               THEN CommitPc(r.st, r.wb, "del")
                                               ELSE "commit_snap"])
  /\ aborted' = NoAbort
  /\ UNCHANGED <<io, diff, staleActive, legacy, upstream, edits, crashes, runs, stateDoc, lock>>

\* main, commit: one iteration of the loop over deletedTabs
CommitDelete(p) ==
  /\ proc[p].pc = "commit_del"
  /\ LET r == proc[p]
         tabs == deletedTabs(r.st, r.wb)
         tab == tabs[r.idx]
         files == deleteSnapshot(snapshots, tab)
     IN /\ snapshots' = files
        /\ proc' = WriteBy(p, [r EXCEPT !.ops = Append(@, OpDeleteSnapshot(tab)),
                                        !.dirty = @ \/ files # snapshots,
                                        !.idx = IF r.idx = Len(tabs) THEN 1 ELSE @ + 1,
                                        !.pc = IF r.idx = Len(tabs) THEN "commit_state"
                                               ELSE "commit_del"])
  /\ aborted' = NoAbort
  /\ UNCHANGED <<io, diff, staleActive, legacy, upstream, edits, crashes, runs, stateDoc, lock>>

\* main, commit: saveState after the email was sent
CommitState(p) ==
  /\ proc[p].pc = "commit_state"
  /\ LET r == proc[p]
         doc == saveState(currentHashes(r.wb))
     IN /\ stateDoc' = doc
        /\ proc' = WriteBy(p, [r EXCEPT !.ops = Append(@, OpSaveState(doc.tabHashes)),
                                        !.dirty = @ \/ doc # stateDoc,
                                        !.pc = "finally", !.outcome = "ok"])
  /\ aborted' = NoAbort
  /\ UNCHANGED <<io, diff, staleActive, legacy, upstream, edits, crashes, runs, snapshots, lock>>

\* main, the branch without email: saveState only
NoEmailState(p) ==
  /\ proc[p].pc = "noemail"
  /\ LET r == proc[p]
         doc == saveState(currentHashes(r.wb))
     IN /\ stateDoc' = doc
        /\ proc' = WriteBy(p, [r EXCEPT !.ops = Append(@, OpSaveState(doc.tabHashes)),
                                        !.dirty = @ \/ doc # stateDoc,
                                        !.pc = "finally", !.outcome = "ok"])
  /\ aborted' = NoAbort
  /\ UNCHANGED <<io, diff, staleActive, legacy, upstream, edits, crashes, runs, snapshots, lock>>

WritePcs == {"first_snap", "first_state", "commit_snap", "commit_del", "commit_state",
             "noemail"}

\* a store write throws (disk full, permissions); control goes to the catch block
PersistFail(p) ==
  /\ proc[p].pc \in WritePcs
  /\ proc' = [proc EXCEPT ![p].pc = "finally", ![p].outcome = "failed"]
  /\ UNCHANGED <<io, diff, staleActive, legacy, upstream, edits, crashes, runs, stateDoc, snapshots, lock, aborted>>

\* a release that leaves the marker where it is
releaseLock_Keeps(marker) == marker

\* releaseLock: remove the marker if there is one
releaseLock(marker) == NoLock

\* main: the finally block, and the end of the process
Finally(p) ==
  /\ proc[p].pc = "finally"
  /\ lock' = IF proc[p].locked THEN releaseLock(lock) ELSE lock
  /\ proc' = [proc EXCEPT ![p] = IdleProc]
  /\ UNCHANGED <<io, diff, staleActive, legacy, upstream, edits, crashes, runs, stateDoc, snapshots, aborted>>

RunningPcs == {"acq_open", "acq_stat", "acq_unlink", "acq_retry", "load", "fetch",
               "first_snap", "first_state", "stage", "notify", "commit_snap",
               "commit_del", "commit_state", "noemail", "finally"}

\* the process is killed: no catch, no finally
Crash(p) ==
  /\ proc[p].pc \in RunningPcs
  /\ crashes < MaxCrashes
  /\ crashes' = crashes + 1
  /\ proc' = [proc EXCEPT ![p] = IdleProc]
  /\ UNCHANGED <<io, diff, staleActive, legacy, upstream, edits, runs, stateDoc, snapshots, lock, aborted>>

\* second implementation: the process starts and reads ./state.json
LegacyStart ==
  /\ legacy.pc = "idle"
  /\ runs = 0
  /\ legacy.runs < MaxRuns
  /\ legacy' = [legacy EXCEPT !.pc = "fetch", !.runs = @ + 1, !.before = legacy.file,
                              !.st = loadTabRows(legacy.file), !.cur = << >>,
                              !.ops = << >>]
  /\ UNCHANGED <<io, diff, staleActive, upstream, edits, crashes, runs, stateDoc, snapshots, lock, proc, aborted>>

\* second implementation: download, extractTabs, diffTabs and the test for changes
LegacyFetch ==
  /\ legacy.pc = "fetch"
  /\ LET currentTabs == extractTabs(upstream)
         d == diffTabs(legacy.st, currentTabs)
     IN legacy' = [legacy EXCEPT !.cur = currentTabs,
                                 !.pc = IF Len(d.changes) > 0 \/ Len(d.addedTabs) > 0
                                           \/ Len(d.deletedTabs) > 0
                                        THEN "notify" ELSE "save"]
  /\ UNCHANGED <<io, diff, staleActive, upstream, edits, crashes, runs, stateDoc, snapshots, lock, proc, aborted>>

\* second implementation: the download or the parse throws
LegacyFetchFail ==
  /\ legacy.pc = "fetch"
  /\ legacy' = [legacy EXCEPT !.pc = "end"]
  /\ UNCHANGED <<io, diff, staleActive, upstream, edits, crashes, runs, stateDoc, snapshots, lock, proc, aborted>>

\* second implementation: sendEmail resolves
LegacySendOk ==
  /\ legacy.pc = "notify"
  /\ legacy' = [legacy EXCEPT !.pc = "save", !.ops = Append(@, OpSendEmail(TRUE))]
  /\ UNCHANGED <<io, diff, staleActive, upstream, edits, crashes, runs, stateDoc, snapshots, lock, proc, aborted>>

\* second implementation: sendEmail rejects; the catch block only logs
LegacySendFail ==
  /\ legacy.pc = "notify"
  /\ legacy' = [legacy EXCEPT !.pc = "end", !.ops = Append(@, OpSendEmail(FALSE))]
  /\ UNCHANGED <<io, diff, staleActive, upstream, edits, crashes, runs, stateDoc, snapshots, lock, proc, aborted>>

\* second implementation: saveState({tabRows: currentTabs, checkedAt})
LegacySave ==
  /\ legacy.pc = "save"
  /\ legacy' = [legacy EXCEPT !.pc = "end", !.ops = Append(@, OpSaveState(legacy.cur)),
                              !.file = [exists |-> TRUE, tabRows |-> legacy.cur]]
  /\ UNCHANGED <<io, diff, staleActive, upstream, edits, crashes, runs, stateDoc, snapshots, lock, proc, aborted>>

\* second implementation: the process ends
LegacyEnd ==
  /\ legacy.pc = "end"
  /\ legacy' = [legacy EXCEPT !.pc = "idle"]
  /\ UNCHANGED <<io, diff, staleActive, upstream, edits, crashes, runs, stateDoc, snapshots, lock, proc, aborted>>

\* time passes; it is observed only by the next statSync of the marker
Tick ==
  /\ lock.exists
  /\ lock.age < MaxTicks * STALE_LOCK_MS
  /\ \E p \in Procs : proc[p].pc = "acq_stat"
  /\ lock' = [lock EXCEPT !.age = @ + STALE_LOCK_MS]
  /\ staleActive' = (staleActive \/ (IsStale(lock.age + STALE_LOCK_MS) /\ OwnerActive(lock)))
  /\ UNCHANGED <<io, diff, legacy, upstream, edits, crashes, runs, stateDoc, snapshots, proc, aborted>>

\* somebody edits the published workbook; it is observed only by the next fetch
Edit(t, c) ==
  /\ edits < MaxEdits
  /\ \/ \E p \in Procs : proc[p].pc = "fetch"
     \/ legacy.pc = "fetch"
  /\ c # upstream[t]
  /\ edits' = edits + 1
  /\ upstream' = [upstream EXCEPT ![t] = c]
  /\ UNCHANGED <<io, diff, staleActive, legacy, crashes, runs, stateDoc, snapshots, lock, proc, aborted>>

Next ==
  \/ \E p \in Procs :
       \/ Start(p)
       \/ AcqOpen(p)
       \/ AcqStat(p)
       \/ AcqUnlink(p)
       \/ AcqRetry(p)
       \/ LoadState(p)
       \/ Fetch(p)
       \/ FetchFail(p)
       \/ FirstSaveSnapshot(p)
       \/ FirstSaveState(p)
       \/ Stage(p)
       \/ ExportFail(p)
       \/ SendOk(p)
       \/ SendFail(p)
       \/ CommitSnapshot(p)
       \/ CommitDelete(p)
       \/ CommitState(p)
       \/ NoEmailState(p)
       \/ PersistFail(p)
       \/ Finally(p)
       \/ Crash(p)
  \/ LegacyStart
  \/ LegacyFetch
  \/ LegacyFetchFail
  \/ LegacySendOk
  \/ LegacySendFail
  \/ LegacySave
  \/ LegacyEnd
  \/ Tick
  \/ \E t \in TabNames, c \in SheetCodes \cup {Absent} : Edit(t, c)

Spec == Init /\ [][Next]_vars

(* ------------------------------------------------------------------ *)
(* The diff engine on its own: diffHeaders, indexRowsByKey and         *)
(* diffRowsById applied to arguments drawn from bounded sets           *)
(* ------------------------------------------------------------------ *)

MaxPrevRows == 2
MaxRows == 3
MaxHeaders == 3
MaxBulkRows == 8
MaxBulkExtra == 1

\* data columns of a wide tab: MaxBulkRows rows of them fill the cap
BulkCols == MAX_CHANGES \div MaxBulkRows

\* all sequences over S of length at most n
SeqsUpTo(S, n) == UNION {[1..k -> S] : k \in 0..n}

S_ID == <<"i", "d">>
S_N == <<"n">>
S_M == <<"m">>
S_EMPTY_2 == EmptyColPrefix \o <<"_", "2">>

\* rows as extractSheet builds them: column name -> cell
RowA1 == <<<<S_ID, <<"1">>>>, <<S_N, <<"a">>>>, <<S_EMPTY_2, <<"x">>>>>>
RowB1 == <<<<S_ID, <<"1", " ">>>>, <<S_N, <<"b", " ">>>>, <<S_EMPTY_2, <<"y">>>>,
          <<S_M, <<"b">>>>>>
RowH == <<<<S_ID, <<"1", "#", "2">>>>, <<S_N, <<"a">>>>>>
RowN == <<<<S_ID, EmptyStr>>, <<S_N, <<"a">>>>>>
RowPool == {RowA1, RowB1, RowH, RowN}

\* header cells; diffHeaders trims them and drops the blank ones
HeaderPool == {<<"A">>, <<"B", " ">>, EmptyStr}

\* column c of a wide tab
BulkCol(c) == <<"c">> \o NumStr(c)

\* row number i of a wide tab, every data cell holding v
BulkRow(i, v) ==
  <<<<S_ID, NumStr(i)>>>> \o [c \in 1..BulkCols |-> <<BulkCol(c), v>>]

\* a wide tab and its next version: d rows deleted at the top, u rows with
\* every data cell updated, a rows added at the bottom
BulkPrev(d, u) == [i \in 1..(d + u) |-> BulkRow(i, <<"a">>)]
BulkCurr(d, u, a) == [i \in 1..(u + a) |-> BulkRow(d + i, <<"b">>)]

RowInputs ==
  {[NoDiff EXCEPT !.pc = "rows", !.prevRows = pr, !.currRows = cr] :
     pr \in SeqsUpTo(RowPool, MaxPrevRows), cr \in SeqsUpTo(RowPool, MaxRows)}

BulkInputs ==
  {[NoDiff EXCEPT !.pc = "rows", !.prevRows = BulkPrev(d, u),
                  !.currRows = BulkCurr(d, u, a)] :
     d \in 0..MaxBulkExtra, a \in 0..MaxBulkExtra, u \in {MaxBulkRows - 1, MaxBulkRows}}

HeaderInputs ==
  {[NoDiff EXCEPT !.pc = "headers", !.prevHeaders = ph, !.currHeaders = ch] :
     ph \in SeqsUpTo(HeaderPool, MaxHeaders), ch \in SeqsUpTo(HeaderPool, MaxHeaders)}

\* the stores and the runs stay as they are before the first invocation
DiffInit ==
  /\ upstream = [t \in TabNames |-> IF t = TabT2 THEN Absent ELSE 1]
  /\ edits = 0
  /\ crashes = 0
  /\ runs = 0
  /\ stateDoc = NoState
  /\ snapshots = [f \in SnapshotFiles |-> NoFile]
  /\ lock = NoLock
  /\ proc = [p \in Procs |-> IdleProc]
  /\ aborted = NoAbort
  /\ staleActive = FALSE
  /\ legacy = LegacyIdle
  /\ diff \in RowInputs \cup BulkInputs \cup HeaderInputs
  /\ io = NoIo

Idle == <<upstream, edits, crashes, runs, stateDoc, snapshots, lock, proc, aborted, legacy,
         staleActive>>

\* diffRowsById up to its loop: both sides indexed, allKeys built
DiffRowsIndex ==
  /\ diff.pc = "rows"
  /\ diff' = [diff EXCEPT !.pc = "loop",
                          !.prevMap = indexRowsByKey(diff.prevRows),
                          !.currMap = indexRowsByKey(diff.currRows),
                          !.allKeys = Dedupe(ObjectKeys(indexRowsByKey(diff.prevRows))
                                               \o ObjectKeys(indexRowsByKey(diff.currRows)))]
  /\ UNCHANGED <<Idle, io>>

\* one iteration of 'for (const key of allKeys)'
DiffRowsKey ==
  /\ diff.pc = "loop"
  /\ ~DiffKeysDone(diff.allKeys, diff.k, diff.acc)
  /\ diff' = [diff EXCEPT !.k = diff.k + 1,
                          !.acc = DiffKeyStep(diff.allKeys[diff.k], diff.prevMap,
                                              diff.currMap, diff.acc)]
  /\ UNCHANGED <<Idle, io>>

\* the loop is left; diffRowsById returns combined, with the marker if capped
DiffRowsReturn ==
  /\ diff.pc = "loop"
  /\ DiffKeysDone(diff.allKeys, diff.k, diff.acc)
  /\ diff' = [diff EXCEPT !.pc = "diffed", !.changes = CapChanges(Combine(diff.acc))]
  /\ UNCHANGED <<Idle, io>>

\* changes = diffHeaders(prevHeaders, currHeaders)
ApplyDiffHeaders ==
  /\ diff.pc = "headers"
  /\ diff' = [diff EXCEPT !.pc = "compared",
                          !.changes = diffHeaders(diff.prevHeaders, diff.currHeaders)]
  /\ UNCHANGED <<Idle, io>>

DiffNext ==
  \/ DiffRowsIndex
  \/ DiffRowsKey
  \/ DiffRowsReturn
  \/ ApplyDiffHeaders

DiffSpec == DiffInit /\ [][DiffNext]_vars

(* ------------------------------------------------------------------ *)
(* The store writes at the level of file operations: atomicWriteJson   *)
(* called by saveState and saveSnapshot, step by step, with a process  *)
(* that can be killed at any step                                      *)
(* ------------------------------------------------------------------ *)

\* bounds of the exploration: calls of atomicWriteJson, and how many of them stop
\* before their end
MaxWrites == 2
MaxAborts == 1
MaxClock == 1
\* bytes that reach the file between two points at which the writer can stop
ChunkBytes == 48

\* paths are sequences of components, relative to __dirname
DATA_DIR == <<<<"d", "a", "t", "a">>>>
STATE_FILE == Append(DATA_DIR, <<"s", "t", "a", "t", "e", ".", "j", "s", "o", "n">>)
SNAPSHOT_DIR == Append(DATA_DIR, <<"s", "n", "a", "p", "s", "h", "o", "t", "s">>)

\* path.join(SNAPSHOT_DIR, sanitizeFilename(tabName) + ".json")
SnapshotPath(tabName) == Append(SNAPSHOT_DIR, SnapshotFile(tabName))

\* path.dirname and path.basename
Dirname(filepath) == SubSeq(filepath, 1, Len(filepath) - 1)
Basename(filepath) == filepath[Len(filepath)]

\* a temporary name that is the target itself
TmpPath_InPlace(filepath, pid, now) == filepath

\* path.join(dir, `.${base}.${process.pid}.${Date.now()}.tmp`)
TmpPath(filepath, pid, now) ==
  Append(Dirname(filepath),
         <<".">> \o Basename(filepath) \o <<".">> \o NumStr(pid) \o <<".">>
           \o NumStr(now) \o <<".", "t", "m", "p">>)

S_NL == "\n"

\* the indentation of JSON.stringify(value, null, 2) at a nesting level
Indent(level) == [i \in 1..(2 * level) |-> " "]

\* JSON.stringify(value, null, 2) of an array at a nesting level, its items
\* already rendered
PrettyArray(rendered, level) ==
  IF rendered = << >> THEN <<"[", "]">>
  ELSE <<"[", S_NL>>
         \o Join([i \in 1..Len(rendered) |-> Indent(level + 1) \o rendered[i]],
                 <<",", S_NL>>)
         \o <<S_NL>> \o Indent(level) \o <<"]">>

\* the same of an object, given as pairs of a key and a rendered value
PrettyObject(members, level) ==
  IF members = << >> THEN <<"{", "}">>
  ELSE <<"{", S_NL>>
         \o Join([i \in 1..Len(members) |->
                    Indent(level + 1) \o JsonString(members[i][1]) \o <<":", " ">>
                      \o members[i][2]],
                 <<",", S_NL>>)
         \o <<S_NL>> \o Indent(level) \o <<"}">>

PrettyStrings(arr, level) ==
  PrettyArray([i \in 1..Len(arr) |-> JsonString(arr[i])], level)

PrettyStringMap(obj, level) ==
  PrettyObject([i \in 1..Len(obj) |-> <<obj[i][1], JsonString(obj[i][2])>>], level)

PrettyRows(rows, level) ==
  PrettyArray([i \in 1..Len(rows) |-> PrettyStringMap(rows[i], level + 1)], level)

\* JSON.stringify(snapshot, null, 2) of {headers, rows}
StringifySnapshot(snapshot) ==
  PrettyObject(<< <<<<"h", "e", "a", "d", "e", "r", "s">>, PrettyStrings(snapshot.headers, 1)>>,
                  <<<<"r", "o", "w", "s">>, PrettyRows(snapshot.rows, 1)>> >>, 0)

\* JSON.stringify(state, null, 2) of {tabHashes, checkedAt}
StringifyState(state) ==
  PrettyObject(<< <<<<"t", "a", "b", "H", "a", "s", "h", "e", "s">>, PrettyStringMap(state.tabHashes, 1)>>,
                  <<<<"c", "h", "e", "c", "k", "e", "d", "A", "t">>, JsonString(state.checkedAt)>> >>, 0)

\* new Date().toISOString(): the text of the clock value (the clock of the
\* model counts from 0)
toISOString(now) == <<"T">> \o NumStr(now)

\* the file behind a path
FileAt(dir, filepath) ==
  IF HasKey(dir, filepath) THEN [exists |-> TRUE, bytes |-> ObjGet(dir, filepath)]
  ELSE NoBytes

\* the directory without the entry of a path
Unlinked(dir, filepath) ==
  LET Other(e) == e[1] # filepath
  IN SelectSeq(dir, Other)

\* fs.renameSync(from, to): the entry of the target now is the file of from
RenameFile(dir, from, to) ==
  IF from = to THEN dir
  ELSE Unlinked(ObjSet(dir, to, ObjGet(dir, from)), from)

\* a workbook with the single tab S holding sheet c
WorkbookOf(c) == [t \in TabNames |-> IF t = TabS THEN c ELSE Absent]

\* the state main saves for a workbook at a time
StateOf(c, now) == [tabHashes |-> currentHashes(WorkbookOf(c)), checkedAt |-> toISOString(now)]

WriteCodes == {1, 2}
WriteTabs == {TabS, TabT1}

\* the documents of the data directory
WriteTargets == {STATE_FILE} \cup {SnapshotPath(t) : t \in WriteTabs}

\* the data directory: empty, or as a committed run over sheet 1 left it
InitDirs ==
  {<< >>,
   << <<STATE_FILE, StringifyState(StateOf(1, 0))>>,
      <<SnapshotPath(TabS), StringifySnapshot(extractSheet(SheetTable[1]))>> >>}

WriteInit ==
  /\ upstream = [t \in TabNames |-> IF t = TabT2 THEN Absent ELSE 1]
  /\ edits = 0
  /\ crashes = 0
  /\ runs = 0
  /\ stateDoc = NoState
  /\ snapshots = [f \in SnapshotFiles |-> NoFile]
  /\ lock = NoLock
  /\ proc = [p \in Procs |-> IdleProc]
  /\ aborted = NoAbort
  /\ staleActive = FALSE
  /\ legacy = LegacyIdle
  /\ diff = NoDiff
  /\ io \in {[NoIo EXCEPT !.pc = "idle", !.pid = 1, !.dir = d] : d \in InitDirs}

\* atomicWriteJson up to its first file operation: the temporary name and the
\* text to write
atomicWriteJson(r, filepath, text, now) ==
  [r EXCEPT !.pc = "open", !.target = filepath, !.tmp = TmpPath(filepath, r.pid, now),
            !.bytes = text, !.written = 0, !.before = FileAt(r.dir, filepath),
            !.now = now, !.writes = @ + 1]

\* saveState(state): atomicWriteJson(STATE_FILE, state)
CallSaveState(c, now) ==
  /\ io.pc = "idle"
  /\ io.writes < MaxWrites
  /\ now >= io.now
  /\ io' = atomicWriteJson(io, STATE_FILE, StringifyState(StateOf(c, now)), now)
  /\ UNCHANGED <<Idle, diff>>

\* saveSnapshot(tabName, snapshot): atomicWriteJson(file, snapshot)
CallSaveSnapshot(tab, c, now) ==
  /\ io.pc = "idle"
  /\ io.writes < MaxWrites
  /\ now >= io.now
  /\ io' = atomicWriteJson(io, SnapshotPath(tab),
                           StringifySnapshot(extractSheet(SheetTable[c])), now)
  /\ UNCHANGED <<Idle, diff>>

\* fs.writeFileSync(tmp, ...): the file is created, or truncated, and opened
WriteOpen ==
  /\ io.pc = "open"
  /\ io' = [io EXCEPT !.dir = ObjSet(io.dir, io.tmp, << >>), !.pc = "write"]
  /\ UNCHANGED <<Idle, diff>>

\* fs.writeFileSync(tmp, ...): the next bytes reach the file
WriteChunk ==
  /\ io.pc = "write"
  /\ LET n == IF io.written + ChunkBytes < Len(io.bytes) THEN io.written + ChunkBytes
              ELSE Len(io.bytes)
     IN io' = [io EXCEPT !.dir = ObjSet(io.dir, io.tmp, SubSeq(io.bytes, 1, n)),
                         !.written = n,
                         !.pc = IF n = Len(io.bytes) THEN "rename" ELSE "write"]
  /\ UNCHANGED <<Idle, diff>>

\* fs.renameSync(tmp, filepath)
WriteRename ==
  /\ io.pc = "rename"
  /\ io' = [io EXCEPT !.dir = RenameFile(io.dir, io.tmp, io.target), !.pc = "idle"]
  /\ UNCHANGED <<Idle, diff>>

WritingPcs == {"open", "write", "rename"}

\* the writer stops between two file operations: the process is killed, or
\* the operation throws (disk full, permissions) and the run ends in its catch
\* block; the next write is made by another process
WriteAbort ==
  /\ io.pc \in WritingPcs
  /\ io.aborts < MaxAborts
  /\ io' = [io EXCEPT !.pc = "idle", !.pid = @ + 1, !.aborts = @ + 1]
  /\ UNCHANGED <<Idle, diff>>

WriteNext ==
  \/ \E c \in WriteCodes, now \in 0..MaxClock : CallSaveState(c, now)
  \/ \E tab \in WriteTabs, c \in WriteCodes, now \in 0..MaxClock :
       CallSaveSnapshot(tab, c, now)
  \/ WriteOpen
  \/ WriteChunk
  \/ WriteRename
  \/ WriteAbort

WriteSpec == WriteInit /\ [][WriteNext]_vars

(* ------------------------------------------------------------------ *)
(* Properties                                                          *)
(* ------------------------------------------------------------------ *)

StoreOpNames == {"saveSnapshot", "deleteSnapshot", "saveState"}

\* positions of the store writes in an operation log
StoreOpsOf(ops) == {i \in 1..Len(ops) : ops[i][1] \in StoreOpNames}

\* positions of the sendEmail calls in an operation log, by result
SendOpsOf(ops, ok) == {i \in 1..Len(ops) : ops[i][1] = "sendEmail" /\ ops[i][3] = ok}

\* between a successful acquireLock and the finally block
CriticalPcs == {"load", "fetch", "first_snap", "first_state", "stage", "notify",
                "commit_snap", "commit_del", "commit_state", "noemail"}

\* acquireLock of the run in slot p has returned
Returned(p) == proc[p].pc \in (CriticalPcs \cup {"finally"})

\* the run in slot p loaded at least one fingerprint
NonFirst(p) == Len(proc[p].st) > 0

\* the aggregate change set of the run in slot p, spelled out
ChangeSetNonEmpty(p) ==
  \/ \E i \in 1..Len(proc[p].allChanges) : Len(proc[p].allChanges[i][2]) > 0
  \/ \E t \in TabNames : proc[p].wb[t] # Absent /\ ~HasKey(proc[p].st, t)
  \/ \E t \in TabNames : proc[p].wb[t] = Absent /\ HasKey(proc[p].st, t)

\* C1: a run whose sendEmail call reported failure performs no saveSnapshot,
\* deleteSnapshot or saveState and replaces no document, and it ends as a
\* failed run; in the second implementation the state file is as it was
\* when the run started
C1_NotifyFailureWritesNothing ==
  /\ \A p \in Procs :
       SendOpsOf(proc[p].ops, FALSE) # {}
         => /\ StoreOpsOf(proc[p].ops) = {}
            /\ ~proc[p].dirty
            /\ proc[p].pc = "finally"
            /\ proc[p].outcome = "failed"
  /\ SendOpsOf(legacy.ops, FALSE) # {}
       => /\ StoreOpsOf(legacy.ops) = {}
          /\ legacy.file = legacy.before

\* a non-first run at its end, after sendEmail rejected
C1_Witness ==
  \E p \in Procs :
    /\ proc[p].pc = "finally"
    /\ NonFirst(p)
    /\ stateDoc.exists
    /\ SendOpsOf(proc[p].ops, FALSE) # {}

\* C2: no two runs are inside the critical section (after a successful
\* acquireLock, before their releaseLock) at the same time
C2_MutualExclusion ==
  \A p, q \in Procs :
    p # q => ~(proc[p].locked /\ proc[p].pc \in CriticalPcs
               /\ proc[q].locked /\ proc[q].pc \in CriticalPcs)

\* C3: a run that ends in failure has replaced no snapshot document and
\* not the state document
C3_FailedRunLeavesStores ==
  \A p \in Procs :
    proc[p].pc = "finally" /\ proc[p].outcome = "failed" => ~proc[p].dirty

\* C4: in a non-first run with a non-empty change set every store write comes
\* after a sendEmail call that succeeded, and no document is replaced before it
C4_NotifyBeforeCommit ==
  \A p \in Procs :
    NonFirst(p) /\ ChangeSetNonEmpty(p)
      => /\ \A i \in StoreOpsOf(proc[p].ops) :
              \E j \in SendOpsOf(proc[p].ops, TRUE) : j < i
         /\ SendOpsOf(proc[p].ops, TRUE) = {} => ~proc[p].dirty
         /\ StoreOpsOf(proc[p].ops) # {}
              => proc[p].pc \in {"commit_snap", "commit_del", "commit_state", "finally"}

\* a non-first run that notified and then committed a snapshot and the state
C4_Witness ==
  \E p \in Procs :
    /\ NonFirst(p)
    /\ ChangeSetNonEmpty(p)
    /\ proc[p].pc = "finally"
    /\ proc[p].outcome = "ok"
    /\ SendOpsOf(proc[p].ops, TRUE) = {1}
    /\ Len(proc[p].ops) >= 3

\* the marker the run in slot p holds carries the stale-recovery flag
\* exactly if the run took it over
FlagRecorded(p) ==
  lock.exists /\ lock.pid = proc[p].pid
    => lock.staleRecovered = (proc[p].statAge # NoStat)

\* C5 as stated: acquireLock that found a marker fails and leaves it if the
\* marker is not older than the threshold, and otherwise succeeds after
\* deleting it and re-creating it once, with the stale-recovery flag
C5_StaleAlwaysAcquires ==
  \A p \in Procs :
    /\ FlagRecorded(p)
    /\ proc[p].statAge # NoStat /\ Returned(p)
         => IF proc[p].statAge > STALE_LOCK_MS
            THEN proc[p].locked /\ proc[p].unlinked /\ proc[p].opens = 2
            ELSE /\ ~proc[p].locked /\ proc[p].outcome = "busy"
                 /\ ~proc[p].unlinked /\ proc[p].opens = 1

\* C5 amended: a marker not older than the threshold makes acquireLock fail
\* and stay away from the marker; an older one makes it try the deletion and
\* then one exclusive re-creation: it succeeds, with the stale-recovery flag,
\* exactly when both succeed, and otherwise fails without another attempt
C5_StaleAcquiresUnlessRaced ==
  \A p \in Procs :
    /\ FlagRecorded(p)
    /\ proc[p].opens <= 2
    /\ proc[p].statAge # NoStat /\ Returned(p)
         => IF proc[p].statAge > STALE_LOCK_MS
            THEN /\ proc[p].locked => proc[p].unlinked /\ proc[p].opens = 2
                 /\ ~proc[p].locked
                      => /\ proc[p].outcome = "busy"
                         /\ proc[p].opens = IF proc[p].unlinked THEN 2 ELSE 1
            ELSE /\ ~proc[p].locked /\ proc[p].outcome = "busy"
                 /\ ~proc[p].unlinked /\ proc[p].opens = 1

\* a run that took over a stale marker and holds the flagged new marker
C5_Witness ==
  \E p \in Procs :
    /\ proc[p].pc = "load"
    /\ proc[p].statAge > STALE_LOCK_MS
    /\ proc[p].unlinked
    /\ lock.exists /\ lock.pid = proc[p].pid /\ lock.staleRecovered

\* C6: a run that acquired the lock ends, unless killed, only through the
\* finally block, and the step that ends it leaves no lock marker
C6_LockReleasedOnExit ==
  [][\A p \in Procs :
       proc[p].locked /\ proc'[p].pc = "idle" /\ crashes' = crashes
         => proc[p].pc = "finally" /\ ~lock'.exists]_vars

\* a run acquires the lock at its first attempt right after a run that
\* aborted has ended
C6_Witness ==
  \E q \in Procs :
    /\ proc[q].pc = "load"
    /\ proc[q].opens = 1
    /\ aborted.valid
    /\ aborted.pid # proc[q].pid
    /\ crashes = 0
    /\ \A o \in Procs \ {q} : proc[o].pc = "idle"

\* C7: a run whose acquireLock reported another active run has fetched
\* nothing, called no collaborator, written nothing and removed no marker of
\* a run that was active
C7_BusyHasNoSideEffects ==
  \A p \in Procs :
    proc[p].outcome = "busy"
      => /\ proc[p].ops = << >>
         /\ proc[p].wb = NoWorkbook
         /\ ~proc[p].dirty
         /\ ~proc[p].unlinkedLive

\* the snapshot writes a first run makes for the tabs names[i..]
RECURSIVE BaselineOps(_, _, _)
BaselineOps(w, names, i) ==
  IF i > Len(names) THEN << >>
  ELSE <<OpSaveSnapshot(names[i], extractSheet(SheetTable[w[names[i]]]))>>
         \o BaselineOps(w, names, i + 1)

\* the tabs present in a fetched workbook, in workbook order
PresentTabs(w) ==
  LET Present(t) == w[t] # Absent
  IN SelectSeq(TabOrder, Present)

C10_AbortedChangeIsRenotified ==
  \A q \in Procs :
    /\ aborted.valid
    /\ aborted.pid # proc[q].pid
    /\ proc[q].quiet
    /\ proc[q].pc \in {"notify", "noemail"}
    /\ proc[q].wb = aborted.wb
    => /\ proc[q].pc = "notify"
       /\ proc[q].allChanges = aborted.allChanges
       /\ addedTabs(proc[q].st, proc[q].wb) = aborted.addedTabs
       /\ deletedTabs(proc[q].st, proc[q].wb) = aborted.deletedTabs
       /\ changedTabs(proc[q].st, proc[q].wb) = aborted.changedTabs

\* the run after an aborted one is about to notify the same cell change again
C10_Witness ==
  \E q \in Procs :
    /\ aborted.valid
    /\ aborted.pid < proc[q].pid
    /\ proc[q].quiet
    /\ proc[q].pc = "notify"
    /\ proc[q].wb = aborted.wb
    /\ Len(proc[q].allChanges) > 0
    /\ \A o \in Procs \ {q} : proc[o].pc = "idle"

\* sendEmail of the run in slot p returned true
Delivered(p) == SendOpsOf(proc[p].ops, TRUE) # {}

\* the run in slot p has decided whether to notify
PastDecision(p) ==
  proc[p].pc \in {"notify", "commit_snap", "commit_del", "commit_state", "noemail",
                  "finally"}

\* a run that loaded the state document after the last store write, when
\* that document holds the fingerprints of the very content the run fetched
\* (the content of the last completed Commit), sends no notification
SameContentIsQuiet ==
  \A q \in Procs :
    /\ proc[q].quiet
    /\ PastDecision(q)
    /\ proc[q].outcome # "busy"
    /\ proc[q].wb # NoWorkbook
    /\ stateDoc.exists
    /\ stateDoc.tabHashes = currentHashes(proc[q].wb)
    => /\ proc[q].pc # "notify"
       /\ SendOpsOf(proc[q].ops, TRUE) \cup SendOpsOf(proc[q].ops, FALSE) = {}

\* C11: the run after a committed run, seeing the same content, sends no
\* notification; and when two different runs both delivered the notification
\* of the same change (same loaded fingerprints, same fetched workbook),
\* neither of them has ended as a successful run
C11_NotifiedOnceUnlessAborted ==
  /\ SameContentIsQuiet
  /\ \A p \in Procs : \A q \in Procs \ {p} :
       /\ Delivered(p)
       /\ Delivered(q)
       /\ proc[p].st = proc[q].st
       /\ proc[p].wb = proc[q].wb
       => ~(proc[p].pc = "finally" /\ proc[p].outcome = "ok")

\* the run in slot p wrote the snapshot of every tab it staged (the changed
\* and the added tabs), as extracted from the workbook it fetched, and the
\* state document with the fingerprints of that workbook
PersistedStaged(p) ==
  /\ \A i \in 1..Len(stagedTabs(proc[p].st, proc[p].wb)) :
       \E n \in 1..Len(proc[p].ops) :
         proc[p].ops[n]
           = OpSaveSnapshot(stagedTabs(proc[p].st, proc[p].wb)[i],
                            extractSheet(SheetOf(proc[p].wb,
                                                 stagedTabs(proc[p].st, proc[p].wb)[i])))
  /\ \E n \in 1..Len(proc[p].ops) :
       proc[p].ops[n] = OpSaveState(currentHashes(proc[p].wb))

\* C18: a non-first run that has completed its Commit phase, after a
\* delivered notification or with nothing to notify, has persisted every
\* staged snapshot along with the new state document
C18_CommitPersistsStaged ==
  \A p \in Procs :
    NonFirst(p) /\ proc[p].pc = "finally" /\ proc[p].outcome = "ok"
      => PersistedStaged(p)

\* the same for the runs that committed after a delivered notification
CommitAfterEmailPersistsStaged ==
  \A p \in Procs :
    NonFirst(p) /\ proc[p].pc = "finally" /\ proc[p].outcome = "ok" /\ Delivered(p)
      => PersistedStaged(p)

\* the tabs the run in slot p fetched with the fingerprint it had loaded
UnchangedTabs(p) ==
  {t \in TabNames : /\ proc[p].wb[t] # Absent
                    /\ HasKey(proc[p].st, t)
                    /\ ObjGet(proc[p].st, t) = hashSheet(SheetOf(proc[p].wb, t))}

\* positions of the saveSnapshot and deleteSnapshot calls in an operation log
SnapshotOpsOf(ops) ==
  {n \in 1..Len(ops) : ops[n][1] \in {"saveSnapshot", "deleteSnapshot"}}

\* the tabs the run in slot p stages are those it classifies changed (stored
\* fingerprint differs) or added (no stored fingerprint), and it saves the
\* snapshot of staged tabs only
OnlyChangedOrAddedStaged(p) ==
  /\ \A i \in 1..Len(stagedTabs(proc[p].st, proc[p].wb)) :
       LET t == stagedTabs(proc[p].st, proc[p].wb)[i]
       IN /\ proc[p].wb[t] # Absent
          /\ \/ ~HasKey(proc[p].st, t)
             \/ ObjGet(proc[p].st, t) # hashSheet(SheetOf(proc[p].wb, t))
  /\ \A n \in SnapshotOpsOf(proc[p].ops) :
       proc[p].ops[n][1] = "saveSnapshot"
         => proc[p].ops[n][2] \in Range(stagedTabs(proc[p].st, proc[p].wb))

\* C21: in a non-first run a tab whose fingerprint equals the stored one is
\* not staged and has no entry in allChanges, and no saveSnapshot or
\* deleteSnapshot call of the run writes or removes its snapshot document;
\* the staged tabs are the changed and the added tabs only
C21_UnchangedTabSkipped ==
  \A p \in Procs :
    NonFirst(p)
      => /\ OnlyChangedOrAddedStaged(p)
         /\ \A t \in UnchangedTabs(p) :
              /\ t \notin Range(stagedTabs(proc[p].st, proc[p].wb))
              /\ ~HasKey(proc[p].allChanges, t)
              /\ \A n \in SnapshotOpsOf(proc[p].ops) :
                   SnapshotFile(proc[p].ops[n][2]) # SnapshotFile(t)

\* the same, for the calls made with the tab's own name
UnchangedTabNeverNamed ==
  \A p \in Procs :
    NonFirst(p)
      => /\ OnlyChangedOrAddedStaged(p)
         /\ \A t \in UnchangedTabs(p) :
              /\ t \notin Range(stagedTabs(proc[p].st, proc[p].wb))
              /\ ~HasKey(proc[p].allChanges, t)
              /\ \A n \in SnapshotOpsOf(proc[p].ops) : proc[p].ops[n][2] # t

\* positions of the deleteSnapshot calls in an operation log
DeleteOpsOf(ops) == {n \in 1..Len(ops) : ops[n][1] = "deleteSnapshot"}

\* every deleteSnapshot call of the run in slot p follows a sendEmail call of
\* the run that succeeded and is made for a tab with a stored fingerprint
\* that is absent from the fetched workbook, and the document it removes is
\* the snapshot document of no tab of that workbook
DeletesAfterDelivery(p) ==
  \A n \in DeleteOpsOf(proc[p].ops) :
    /\ \E j \in SendOpsOf(proc[p].ops, TRUE) : j < n
    /\ HasKey(proc[p].st, proc[p].ops[n][2])
    /\ \A t \in TabNames :
         SnapshotFile(t) = SnapshotFile(proc[p].ops[n][2]) => proc[p].wb[t] = Absent

\* the state document the run in slot p wrote last holds no fingerprint of a
\* tab the run found removed
RemovedTabsForgotten(p) ==
  /\ Len(proc[p].ops) > 0
  /\ proc[p].ops[Len(proc[p].ops)][1] = "saveState"
  /\ \A i \in 1..Len(deletedTabs(proc[p].st, proc[p].wb)) :
       ~HasKey(proc[p].ops[Len(proc[p].ops)][3], deletedTabs(proc[p].st, proc[p].wb)[i])

\* C22: a snapshot document is deleted only by a run that loaded the tab's
\* fingerprint, found the tab absent upstream and delivered its notification;
\* a run that ends in failure has deleted no snapshot; and the state document
\* written by the commit holds no fingerprint of a removed tab
C22_DeleteOnlyOnCommit ==
  \A p \in Procs :
    /\ DeletesAfterDelivery(p)
    /\ proc[p].pc = "finally" /\ proc[p].outcome = "failed"
         => DeleteOpsOf(proc[p].ops) = {}
    /\ proc[p].pc = "finally" /\ proc[p].outcome = "ok" /\ NonFirst(p) /\ Delivered(p)
         => RemovedTabsForgotten(p)

\* the same without the runs that fail in the middle of the commit writes
DeleteOnlyAfterDelivery ==
  \A p \in Procs :
    /\ DeletesAfterDelivery(p)
    /\ proc[p].pc = "finally" /\ proc[p].outcome = "failed" /\ ~Delivered(p)
         => DeleteOpsOf(proc[p].ops) = {}
    /\ proc[p].pc = "finally" /\ proc[p].outcome = "ok" /\ NonFirst(p) /\ Delivered(p)
         => RemovedTabsForgotten(p)

\* the step is a saveSnapshot or deleteSnapshot call of the run in slot p for
\* the tab t
SnapshotCallFor(p, t) ==
  /\ Len(proc'[p].ops) = Len(proc[p].ops) + 1
  /\ proc'[p].ops[Len(proc'[p].ops)][1] \in {"saveSnapshot", "deleteSnapshot"}
  /\ proc'[p].ops[Len(proc'[p].ops)][2] = t

\* the step completes a run of slot p that wrote the state document
CommitCompletedBy(p) ==
  /\ proc[p].pc \in {"first_state", "commit_state", "noemail"}
  /\ proc'[p].pc = "finally"
  /\ proc'[p].outcome = "ok"

\* the tab t has a snapshot document that no other tab with a fingerprint in
\* the state document reads
OwnDocument(t) ==
  /\ snapshots[SnapshotFile(t)].exists
  /\ \A u \in TabNames \ {t} :
       HasKey(stateDoc.tabHashes, u) => SnapshotFile(u) # SnapshotFile(t)

\* the tab u is in the workbook the run in slot p fetched, or has a
\* fingerprint in the state it loaded
KnownTab(p, u) == proc[p].wb[u] # Absent \/ HasKey(proc[p].st, u)

\* C24: a saveSnapshot or deleteSnapshot call for one tab leaves what
\* loadSnapshot returns for every other tab of the workbook or of the state
\* as it was, and when a run has committed, every tab with a fingerprint in
\* the state document has a snapshot document of its own
C24_SnapshotsPerTab ==
  [][\A p \in Procs :
       /\ \A t \in TabNames : \A u \in TabNames \ {t} :
            SnapshotCallFor(p, t) /\ KnownTab(p, u)
              => loadSnapshot(snapshots', u) = loadSnapshot(snapshots, u)
       /\ CommitCompletedBy(p)
            => \A t \in TabNames : HasKey(stateDoc'.tabHashes, t) => OwnDocument(t)']_vars

\* the first part, for the tab names that sanitizeFilename keeps apart
SnapshotsPerFileName ==
  [][\A p \in Procs : \A t \in TabNames : \A u \in TabNames \ {t} :
       SnapshotCallFor(p, t) /\ SnapshotFile(u) # SnapshotFile(t)
         => loadSnapshot(snapshots', u) = loadSnapshot(snapshots, u)]_vars

\* the step is a saveState call of the run in slot p
StateWriteBy(p) ==
  /\ Len(proc'[p].ops) = Len(proc[p].ops) + 1
  /\ proc'[p].ops[Len(proc'[p].ops)][1] = "saveState"

\* the tabs whose fingerprint the run in slot p had not loaded and writes
\* with this step
NewlyRecorded(p) ==
  {t \in TabNames : /\ HasKey(proc'[p].ops[Len(proc'[p].ops)][3], t)
                    /\ ~HasKey(proc[p].st, t)}

\* C25: when a state document exists (some run has committed), a run writes
\* the fingerprint of a tab it had not loaded only after its sendEmail call,
\* made with that tab in addedTabs, succeeded; also when the state document
\* it loaded recorded no tab
C25_NewTabNotifiedFirst ==
  [][\A p \in Procs :
       StateWriteBy(p) /\ stateDoc.exists
         => \A t \in NewlyRecorded(p) :
              /\ Delivered(p)
              /\ t \in Range(addedTabs(proc[p].st, proc[p].wb))]_vars

\* the same for the runs that loaded at least one fingerprint
NewTabNotifiedFirstIfNonFirst ==
  [][\A p \in Procs :
       StateWriteBy(p) /\ NonFirst(p)
         => \A t \in NewlyRecorded(p) :
              /\ Delivered(p)
              /\ t \in Range(addedTabs(proc[p].st, proc[p].wb))]_vars

\* the marker is older than the threshold while the run that wrote it is
\* still running
StaleWhileActive == lock.exists /\ IsStale(lock.age) /\ OwnerActive(lock)

\* C26: if no marker is ever older than the threshold while its run is still
\* active, at most one run is between its successful acquireLock and its
\* releaseLock at any time
C26_ExclusiveUnlessStaleWhileActive ==
  ~staleActive => C2_MutualExclusion

\* staleActive records every state in which a marker is stale while its run
\* is active
StaleActiveRecorded == StaleWhileActive => staleActive

\* a run becomes the holder only by an openSync(LOCK_FILE, "wx") that finds no
\* marker and leaves its own: of the callers that meet an absent marker, the
\* first one succeeds and the others meet its marker
ExclusiveCreate ==
  [][\A p \in Procs :
       ~proc[p].locked /\ proc[p].pc # "idle" /\ proc[p]'.locked
         => /\ ~lock.exists
            /\ lock' = LockMarker(proc[p].pid, proc[p].pc = "acq_retry")
            /\ \A q \in Procs \ {p} : proc[q]' = proc[q]]_vars

(* ------------------------------------------------------------------ *)
(* Properties of the store writes (WriteSpec)                          *)
(* ------------------------------------------------------------------ *)

\* the complete texts of the documents the callers write
CompleteTexts ==
  {StringifyState(StateOf(c, now)) : c \in WriteCodes, now \in 0..MaxClock}
    \cup {StringifySnapshot(extractSheet(SheetTable[c])) : c \in WriteCodes}

DiffRowsAgree ==
  diff.pc = "diffed" /\ Len(diff.currRows) <= MaxRows
    => diff.changes = diffRowsById(diff.prevRows, diff.currRows)

\* C12: diffRowsById of a row list and an identical copy returns the empty
\* list, and so does diffHeaders of a header list and an identical copy
C12_IdenticalCopyIsQuiet ==
  /\ diff.pc = "diffed" /\ diff.prevRows = diff.currRows => diff.changes = << >>
  /\ diff.pc = "compared" /\ diff.prevHeaders = diff.currHeaders => diff.changes = << >>

\* two identical copies of a tab whose two rows share one key have been diffed
C12_Witness ==
  /\ diff.pc = "diffed"
  /\ diff.prevRows = diff.currRows
  /\ Len(diff.prevRows) = 2
  /\ getRowKey(diff.prevRows[1]) = getRowKey(diff.prevRows[2])
  /\ diff.changes = << >>

\* the trimmed cell of the id column of a row, blank if there is none
RowId(row) ==
  IF FindIdKey(ObjectKeys(row)) = Undef THEN EmptyStr
  ELSE Trim(normalizeCell(ObjGet(row, FindIdKey(ObjectKeys(row)))))

\* curr is prev with one row inserted at position pos
InsertedAt(prev, curr, pos) ==
  /\ Len(curr) = Len(prev) + 1
  /\ pos \in 1..Len(curr)
  /\ \A i \in 1..Len(prev) : prev[i] = curr[IF i < pos THEN i ELSE i + 1]

RowAdded(key) ==
  [row |-> key, column |-> S_ROW, type |-> "Row Added", before |-> EmptyStr,
   after |-> S_ROW_CREATED, severity |-> "STRUCTURAL"]

RowDeleted(key) ==
  [row |-> key, column |-> S_ROW, type |-> "Row Deleted", before |-> S_ROW_EXISTED,
   after |-> EmptyStr, severity |-> "STRUCTURAL"]

\* the N previous rows all have an id and the row at pos has an id of its own
FreshIdAt(prev, curr, pos) ==
  /\ \A i \in 1..Len(prev) : RowId(prev[i]) # EmptyStr
  /\ RowId(curr[pos]) # EmptyStr
  /\ \A i \in 1..Len(prev) : RowId(prev[i]) # RowId(curr[pos])

\* C13: when the current rows are the previous rows, each with a non-blank
\* id, plus one row with a fresh id inserted at any position, diffRowsById
\* returns exactly one record, the 'Row Added' of the new row's key
C13_InsertionIsOneRowAdded ==
  diff.pc = "diffed"
    => \A pos \in 1..Len(diff.currRows) :
         InsertedAt(diff.prevRows, diff.currRows, pos)
           /\ FreshIdAt(diff.prevRows, diff.currRows, pos)
           => diff.changes = <<RowAdded(S_ID_PREFIX \o RowId(diff.currRows[pos]))>>

\* the same with the N previous ids pairwise distinct
C13_DistinctIdsInsertion ==
  diff.pc = "diffed"
    => \A pos \in 1..Len(diff.currRows) :
         /\ InsertedAt(diff.prevRows, diff.currRows, pos)
         /\ FreshIdAt(diff.prevRows, diff.currRows, pos)
         /\ \A i, j \in 1..Len(diff.prevRows) :
              i # j => RowId(diff.prevRows[i]) # RowId(diff.prevRows[j])
         => diff.changes = <<RowAdded(S_ID_PREFIX \o RowId(diff.currRows[pos]))>>

\* a header list after trimming and dropping the blank names
HeaderNames(hs) ==
  LET Named(h) == Trim(h) # EmptyStr
      kept == SelectSeq(hs, Named)
  IN [i \in 1..Len(kept) |-> Trim(kept[i])]

\* how many records of a type a change list holds
CountType(changes, t) == Cardinality({i \in 1..Len(changes) : changes[i].type = t})

\* C14: diffHeaders emits a 'Header Order Changed' record if and only if the
\* two cleaned header lists have the same set of names and differ as
\* sequences, and then that record is its whole output
C14_OrderChangedIffSameSet ==
  diff.pc = "compared"
    => /\ CountType(diff.changes, "Header Order Changed") > 0
            <=> /\ Range(HeaderNames(diff.prevHeaders)) = Range(HeaderNames(diff.currHeaders))
                /\ HeaderNames(diff.prevHeaders) # HeaderNames(diff.currHeaders)
       /\ CountType(diff.changes, "Header Order Changed") > 0
            => Len(diff.changes) = 1

\* what the order check does: the record appears exactly when the lists have
\* the same length and the same set of names and differ at some position
OrderChangedIffSameLength ==
  diff.pc = "compared"
    => /\ CountType(diff.changes, "Header Order Changed") > 0
            <=> /\ Range(HeaderNames(diff.prevHeaders)) = Range(HeaderNames(diff.currHeaders))
                /\ Len(HeaderNames(diff.prevHeaders)) = Len(HeaderNames(diff.currHeaders))
                /\ HeaderNames(diff.prevHeaders) # HeaderNames(diff.currHeaders)
       /\ CountType(diff.changes, "Header Order Changed") > 0
            => Len(diff.changes) = 1

\* the names of hs, in order, that are not among the names of other
NamesNotIn(hs, other) ==
  LET Missing(h) == h \notin Range(HeaderNames(other))
  IN SelectSeq(HeaderNames(hs), Missing)

\* C15: diffHeaders emits one 'Header Added' record, listing every current
\* name absent from the previous names, exactly when there is such a name,
\* and none otherwise; likewise one 'Header Removed' record for the previous
\* names absent from the current ones; and when either is emitted there is
\* no 'Header Order Changed' record
C15_AggregatedAddedRemoved ==
  diff.pc = "compared"
    => /\ CountType(diff.changes, "Header Added")
            = IF NamesNotIn(diff.currHeaders, diff.prevHeaders) # << >> THEN 1 ELSE 0
       /\ CountType(diff.changes, "Header Removed")
            = IF NamesNotIn(diff.prevHeaders, diff.currHeaders) # << >> THEN 1 ELSE 0
       /\ \A i \in 1..Len(diff.changes) :
            /\ diff.changes[i].type = "Header Added"
                 => diff.changes[i].after
                      = Join(NamesNotIn(diff.currHeaders, diff.prevHeaders), <<",", " ">>)
            /\ diff.changes[i].type = "Header Removed"
                 => diff.changes[i].before
                      = Join(NamesNotIn(diff.prevHeaders, diff.currHeaders), <<",", " ">>)
       /\ CountType(diff.changes, "Header Added")
            + CountType(diff.changes, "Header Removed") > 0
            => CountType(diff.changes, "Header Order Changed") = 0

\* a rename: one header replaced by another gives one Added and one Removed
C15_Witness ==
  /\ diff.pc = "compared"
  /\ HeaderNames(diff.prevHeaders) = <<<<"A">>>>
  /\ HeaderNames(diff.currHeaders) = <<<<"B">>>>
  /\ Len(diff.changes) = 2
  /\ CountType(diff.changes, "Header Added") = 1
  /\ CountType(diff.changes, "Header Removed") = 1

\* the trimmed text of the cell of row under col, blank if the row has no
\* such column
CellText(row, col) == Trim(normalizeCell(ObjGet(row, col)))

\* the record of one changed cell
CellRecord(key, col, before, after) ==
  [row |-> key, column |-> col,
   type |-> IF before = EmptyStr THEN "Added"
            ELSE IF after = EmptyStr THEN "Cleared" ELSE "Updated",
   before |-> before, after |-> after, severity |-> "DATA"]

\* the cell records two rows under one key call for: one per labelled column
\* of either row whose trimmed texts differ, in column order
ExpectedCells(key, oldRow, newRow) ==
  LET Changed(col) == /\ col # EmptyStr
                      /\ ~StartsWith(col, EmptyColPrefix)
                      /\ CellText(oldRow, col) # CellText(newRow, col)
      cols == SelectSeq(Dedupe(ObjectKeys(oldRow) \o ObjectKeys(newRow)), Changed)
  IN [i \in 1..Len(cols) |->
        CellRecord(key, cols[i], CellText(oldRow, cols[i]), CellText(newRow, cols[i]))]

\* the DATA records of a change list that carry a row key
DataRecordsOf(changes, key) ==
  LET Mine(r) == r.row = key /\ r.severity = "DATA"
  IN SelectSeq(changes, Mine)

\* row i is the Occurrence-th row of its list with its base key
Occurrence(rows, i) ==
  Cardinality({j \in 1..i : getRowKey(rows[j]) = getRowKey(rows[i])})

\* the key of the k-th occurrence of a base key
OccurrenceKey(rows, i) ==
  IF Occurrence(rows, i) = 1 THEN getRowKey(rows[i])
  ELSE getRowKey(rows[i]) \o <<"#">> \o NumStr(Occurrence(rows, i))

\* row i of the previous side and row j of the current side are the same
\* occurrence of the same base key
Counterparts(i, j) ==
  /\ getRowKey(diff.prevRows[i]) = getRowKey(diff.currRows[j])
  /\ Occurrence(diff.prevRows, i) = Occurrence(diff.currRows, j)

\* the k-th occurrences of one base key on the two sides are diffed with each
\* other, and an occurrence without counterpart is diffed with no row and
\* reported added or deleted
OccurrencesPaired ==
  /\ \A i \in 1..Len(diff.prevRows) : \A j \in 1..Len(diff.currRows) :
       Counterparts(i, j)
         => DataRecordsOf(diff.changes, OccurrenceKey(diff.prevRows, i))
              = ExpectedCells(OccurrenceKey(diff.prevRows, i), diff.prevRows[i],
                              diff.currRows[j])
  /\ \A i \in 1..Len(diff.prevRows) :
       (\A j \in 1..Len(diff.currRows) : ~Counterparts(i, j))
       => /\ DataRecordsOf(diff.changes, OccurrenceKey(diff.prevRows, i)) = << >>
          /\ \E n \in 1..Len(diff.changes) :
               diff.changes[n] = RowDeleted(OccurrenceKey(diff.prevRows, i))
  /\ \A j \in 1..Len(diff.currRows) :
       (\A i \in 1..Len(diff.prevRows) : ~Counterparts(i, j))
       => /\ DataRecordsOf(diff.changes, OccurrenceKey(diff.currRows, j)) = << >>
          /\ \E n \in 1..Len(diff.changes) :
               diff.changes[n] = RowAdded(OccurrenceKey(diff.currRows, j))

\* C16: on each side the k-th row with a base key is indexed under that key
\* for k = 1 and under the key with suffix '#k' for k >= 2, and diffRowsById
\* (below its cap) compares the k-th occurrence on the previous side with
\* the k-th occurrence on the current side and with no other row
C16_KthWithKth ==
  /\ diff.pc \in {"loop", "diffed"}
       => /\ \A i \in 1..Len(diff.prevRows) :
               HasKey(diff.prevMap, OccurrenceKey(diff.prevRows, i))
          /\ \A j \in 1..Len(diff.currRows) :
               HasKey(diff.currMap, OccurrenceKey(diff.currRows, j))
  /\ diff.pc = "diffed" /\ Len(diff.changes) < MAX_CHANGES => OccurrencesPaired

\* the id of no row contains the suffix separator '#'
NoHashIn(rows) == \A i \in 1..Len(rows) : "#" \notin Range(RowId(rows[i]))

\* the same pairing, for the tabs in which no id contains '#'
C16_KthWithKthWithoutHash ==
  /\ diff.pc = "diffed"
  /\ Len(diff.changes) < MAX_CHANGES
  /\ NoHashIn(diff.prevRows)
  /\ NoHashIn(diff.currRows)
  => OccurrencesPaired

\* every row of the list sits in the map under a key of its own
OneEntryPerRow(rows, map) ==
  /\ Len(map) = Len(rows)
  /\ \A i \in 1..Len(rows) :
       /\ HasKey(map, OccurrenceKey(rows, i))
       /\ ObjGet(map, OccurrenceKey(rows, i)) = rows[i]

\* C20: the map indexRowsByKey builds has exactly one entry per row, each
\* row under the key of its occurrence, and no row overwrites another
C20_DistinctKeys ==
  diff.pc \in {"loop", "diffed"}
    => /\ OneEntryPerRow(diff.prevRows, diff.prevMap)
       /\ OneEntryPerRow(diff.currRows, diff.currMap)

\* the same when no id contains the suffix separator '#'
C20_DistinctKeysWithoutHash ==
  /\ diff.pc \in {"loop", "diffed"}
  /\ NoHashIn(diff.currRows)
  => OneEntryPerRow(diff.currRows, diff.currMap)

\* the keys indexed on both sides
SharedKeys == {diff.allKeys[n] : n \in {m \in 1..Len(diff.allKeys) :
                                          /\ HasKey(diff.prevMap, diff.allKeys[m])
                                          /\ HasKey(diff.currMap, diff.allKeys[m])}}

\* the statement of C17 as it stands: for every key on both sides the output
\* holds exactly the cell records the two rows call for
C17_CellRecordsAlways ==
  diff.pc = "diffed"
    => \A key \in SharedKeys :
         DataRecordsOf(diff.changes, key)
           = ExpectedCells(key, ObjGet(diff.prevMap, key), ObjGet(diff.currMap, key))

\* C17: for a key present on both sides diffRowsById emits, per labelled
\* column of either row, no record when the trimmed values are equal and
\* else one 'Added', 'Cleared' or 'Updated' DATA record with the trimmed
\* values - all of them while the tab's change list stays below the cap, and
\* a leading part of them (possibly none) once the cap has been reached
C17_CellRecordsUpToCap ==
  diff.pc = "diffed"
    => \A key \in SharedKeys :
         /\ Len(DataRecordsOf(diff.changes, key))
              <= Len(ExpectedCells(key, ObjGet(diff.prevMap, key),
                                   ObjGet(diff.currMap, key)))
         /\ DataRecordsOf(diff.changes, key)
              = SubSeq(ExpectedCells(key, ObjGet(diff.prevMap, key),
                                     ObjGet(diff.currMap, key)),
                       1, Len(DataRecordsOf(diff.changes, key)))
         /\ Len(diff.changes) < MAX_CHANGES
              => DataRecordsOf(diff.changes, key)
                   = ExpectedCells(key, ObjGet(diff.prevMap, key),
                                   ObjGet(diff.currMap, key))

\* two rows compared under their keys: a cell cleared, a cell filled, two
\* cells updated, and placeholder columns that differ without a record
C17_Witness ==
  /\ diff.pc = "diffed"
  /\ Len(diff.prevRows) = 2
  /\ Len(diff.currRows) = 2
  /\ Cardinality(SharedKeys) = 2
  /\ CountType(diff.changes, "Added") = 1
  /\ CountType(diff.changes, "Cleared") = 1
  /\ CountType(diff.changes, "Updated") = 2
  /\ Len(diff.changes) = 4
  /\ \E i \in 1..2 : \E j \in 1..2 :
       /\ HasKey(diff.prevRows[i], S_EMPTY_2)
       /\ HasKey(diff.currRows[j], S_EMPTY_2)
       /\ OccurrenceKey(diff.prevRows, i) = OccurrenceKey(diff.currRows, j)
       /\ ObjGet(diff.prevRows[i], S_EMPTY_2) # ObjGet(diff.currRows[j], S_EMPTY_2)

\* in the output every structural record comes before every data record, and
\* when the two lists together reached the cap the 'Truncated' INFO record
\* is the last record, and only then
StructuralFirstAndMarker ==
  diff.pc = "diffed"
    => /\ \A i \in 1..Len(diff.changes) : \A j \in i..Len(diff.changes) :
            diff.changes[i].severity = "DATA" => diff.changes[j].severity # "STRUCTURAL"
       /\ CountType(diff.changes, "Truncated")
            = IF Len(diff.acc.structural) + Len(diff.acc.dataChanges) >= MAX_CHANGES
              THEN 1 ELSE 0
       /\ \A i \in 1..Len(diff.changes) :
            diff.changes[i].type = "Truncated"
              => i = Len(diff.changes) /\ diff.changes[i].severity = "INFO"

\* every row key found on one side only has its structural record in the output
StructuralComplete ==
  \A n \in 1..Len(diff.allKeys) :
    /\ ~HasKey(diff.prevMap, diff.allKeys[n])
         => \E i \in 1..Len(diff.changes) : diff.changes[i] = RowAdded(diff.allKeys[n])
    /\ ~HasKey(diff.currMap, diff.allKeys[n])
         => \E i \in 1..Len(diff.changes) : diff.changes[i] = RowDeleted(diff.allKeys[n])

\* C19: the output of diffRowsById lists the structural records before the
\* data records and ends with the 'Truncated' record when the cap is hit,
\* and whenever it includes a data record it omits no structural change
C19_StructuralRetained ==
  /\ StructuralFirstAndMarker
  /\ diff.pc = "diffed"
       /\ (\E i \in 1..Len(diff.changes) : diff.changes[i].severity = "DATA")
       => StructuralComplete

====
